---------------------------- MODULE Spec2Model ----------------------------
(***************************************************************************)
(* A model of the interpretation and orchestration layer of the legal      *)
(* document analyser: the document pipelines (process_document,            *)
(* process_multiple_documents), the question answering front end           *)
(* (answer_question, search_document, _estimate_confidence), the clause    *)
(* router (get_clause_context_for_question), the span highlighter          *)
(* (highlight_clauses_in_text) and the response parsers.                   *)
(*                                                                         *)
(* Text is a sequence of one-character strings, so that substring search,  *)
(* lower-casing, stripping and splitting are computed as Python computes   *)
(* them.  A Python call that may raise is an operator returning a record   *)
(* [exc |-> BOOLEAN, val |-> ...]; try/except is IF r.exc THEN handler.    *)
(***************************************************************************)
EXTENDS Integers, Sequences, FiniteSets, TLC

(***************************************************************************)
(* Python str operations on character sequences.                           *)
(***************************************************************************)

Max(a, b) == IF a >= b THEN a ELSE b

Min(a, b) == IF a <= b THEN a ELSE b

\* s[i:j] with 1-based inclusive bounds; empty when j < i.
Slice(s, i, j) == IF j < i THEN <<>> ELSE SubSeq(s, i, j)

\* t occurs in s starting at position i.
OccursAt(s, t, i) ==
    /\ i >= 1
    /\ i + Len(t) - 1 <= Len(s)
    /\ \A k \in 1..Len(t) : s[i + k - 1] = t[k]

SetMin(S) == CHOOSE m \in S : \A n \in S : m <= n

SetMax(S) == CHOOSE m \in S : \A n \in S : m >= n

\* str.find: the first position of t in s, 0 when there is none (Python: -1).
Find(s, t) ==
    IF \E i \in 1..(Len(s) - Len(t) + 1) : OccursAt(s, t, i)
    THEN CHOOSE i \in 1..(Len(s) - Len(t) + 1) :
             OccursAt(s, t, i) /\ \A j \in 1..(i - 1) : ~OccursAt(s, t, j)
    ELSE 0

\* str.rfind: the last position of t in s, 0 when there is none.
RFind(s, t) ==
    IF \E i \in 1..(Len(s) - Len(t) + 1) : OccursAt(s, t, i)
    THEN CHOOSE i \in 1..(Len(s) - Len(t) + 1) :
             OccursAt(s, t, i) /\ \A j \in (i + 1)..(Len(s) - Len(t) + 1) : ~OccursAt(s, t, j)
    ELSE 0

\* t in s
Contains(s, t) == Len(t) = 0 \/ \E i \in 1..(Len(s) - Len(t) + 1) : OccursAt(s, t, i)

StartsWith(s, t) == OccursAt(s, t, 1)

EndsWith(s, t) == Len(t) <= Len(s) /\ OccursAt(s, t, Len(s) - Len(t) + 1)

UpperLetters ==
    <<"A","B","C","D","E","F","G","H","I","J","K","L","M",
      "N","O","P","Q","R","S","T","U","V","W","X","Y","Z">>

LowerLetters ==
    <<"a","b","c","d","e","f","g","h","i","j","k","l","m",
      "n","o","p","q","r","s","t","u","v","w","x","y","z">>

LowerChar(c) ==
    IF \E k \in 1..26 : UpperLetters[k] = c
    THEN LowerLetters[CHOOSE k \in 1..26 : UpperLetters[k] = c]
    ELSE c

UpperChar(c) ==
    IF \E k \in 1..26 : LowerLetters[k] = c
    THEN UpperLetters[CHOOSE k \in 1..26 : LowerLetters[k] = c]
    ELSE c

\* str.lower
Lower(s) == [i \in 1..Len(s) |-> LowerChar(s[i])]

\* str.upper
Upper(s) == [i \in 1..Len(s) |-> UpperChar(s[i])]

Whitespace == {" ", "\n", "\t", "\r"}

\* str.strip
Strip(s) ==
    IF \A i \in 1..Len(s) : s[i] \in Whitespace THEN <<>>
    ELSE SubSeq(s,
                CHOOSE i \in 1..Len(s) :
                    s[i] \notin Whitespace /\ \A j \in 1..(i - 1) : s[j] \in Whitespace,
                CHOOSE i \in 1..Len(s) :
                    s[i] \notin Whitespace /\ \A j \in (i + 1)..Len(s) : s[j] \in Whitespace)

\* str.split(sep) for a one-character separator, as a sequence of pieces.
RECURSIVE SplitOn(_, _)
SplitOn(s, sep) ==
    LET cut == Find(s, <<sep>>)
    IN  IF cut = 0
        THEN <<s>>
        ELSE <<Slice(s, 1, cut - 1)>> \o SplitOn(Slice(s, cut + 1, Len(s)), sep)

\* str.replace(old, new, 1): the first occurrence only.
ReplaceFirst(s, old, new) ==
    LET at == Find(s, old)
    IN  IF at = 0
        THEN s
        ELSE Slice(s, 1, at - 1) \o new \o Slice(s, at + Len(old), Len(s))

\* seq[:n]
Take(seq, n) == Slice(seq, 1, Min(n, Len(seq)))

\* "".join(parts)
RECURSIVE Concat(_)
Concat(parts) == IF parts = <<>> THEN <<>> ELSE Head(parts) \o Concat(Tail(parts))

\* The elements of seq that satisfy Test, in order.
RECURSIVE SelectIdx(_, _)
SelectIdx(seq, keep) ==
    IF seq = <<>> THEN <<>>
    ELSE LET rest == SelectIdx(Tail(seq), {i - 1 : i \in keep \ {1}})
         IN  IF 1 \in keep THEN <<Head(seq)>> \o rest ELSE rest

(***************************************************************************)
(* json.loads.  A JSON value is a record [t, s, items, keys]: t is "str",  *)
(* "num", "lit", "arr" or "obj"; s holds the characters of a string,       *)
(* number or literal; items the elements of an array or the member values  *)
(* of an object, whose member names are keys.  A parse yields              *)
(* [ok, v, next], next being the position after the value.                 *)
(***************************************************************************)

JStr(chars) == [t |-> "str", s |-> chars, items |-> <<>>, keys |-> <<>>]

JNum(chars) == [t |-> "num", s |-> chars, items |-> <<>>, keys |-> <<>>]

JLit(chars) == [t |-> "lit", s |-> chars, items |-> <<>>, keys |-> <<>>]

JArr(elems) == [t |-> "arr", s |-> <<>>, items |-> elems, keys |-> <<>>]

JObj(names, vals) == [t |-> "obj", s |-> <<>>, items |-> vals, keys |-> names]

JFail == [ok |-> FALSE, v |-> JLit(<<>>), next |-> 0]

JOk(val, nxt) == [ok |-> TRUE, v |-> val, next |-> nxt]

Digits == {"0", "1", "2", "3", "4", "5", "6", "7", "8", "9"}

\* The first position from i on that holds no JSON white space.
RECURSIVE SkipWs(_, _)
SkipWs(s, i) ==
    IF i <= Len(s) /\ s[i] \in Whitespace THEN SkipWs(s, i + 1) ELSE i

\* The characters of a string body with its escapes replaced; ok is FALSE
\* for an escape json.loads rejects.
RECURSIVE Unescape(_)
Unescape(raw) ==
    LET at == Find(raw, <<"\\">>)
        c == raw[at + 1]
        rest == Unescape(Slice(raw, at + 2, Len(raw)))
    IN  IF at = 0 THEN [ok |-> TRUE, s |-> raw]
        ELSE IF at = Len(raw) \/ c \notin {"\"", "\\", "/", "n", "t"} \/ ~rest.ok
        THEN [ok |-> FALSE, s |-> <<>>]
        ELSE [ok |-> TRUE,
              s |-> Slice(raw, 1, at - 1)
                    \o <<IF c = "n" THEN "\n" ELSE IF c = "t" THEN "\t" ELSE c>>
                    \o rest.s]

\* The body of a string from position i (after the opening quote): the
\* first quote that no backslash escapes ends it (a quote is escaped when
\* an odd number of backslashes stands before it), and a raw control
\* character is an error.
ScanString(s, i) ==
    LET Backslashes(q) ==
            IF q = i \/ s[q - 1] # "\\" THEN 0
            ELSE q - 1 - (CHOOSE p \in (i - 1)..(q - 1) :
                              /\ p = i - 1 \/ s[p] # "\\"
                              /\ \A r \in (p + 1)..(q - 1) : s[r] = "\\")
        Closing(q) == s[q] = "\"" /\ Backslashes(q) % 2 = 0
        q == CHOOSE c \in i..Len(s) : Closing(c) /\ \A p \in i..(c - 1) : ~Closing(p)
        body == Unescape(Slice(s, i, q - 1))
    IN  IF \A c \in i..Len(s) : ~Closing(c) THEN JFail
        ELSE IF \E p \in i..(q - 1) : s[p] \in {"\n", "\t", "\r"} THEN JFail
        ELSE IF ~body.ok THEN JFail
        ELSE JOk(JStr(body.s), q + 1)

RECURSIVE ScanDigits(_, _)
ScanDigits(s, i) ==
    IF i <= Len(s) /\ s[i] \in Digits THEN ScanDigits(s, i + 1) ELSE i

\* An integer: an optional minus sign, then 0 or a digit string not
\* starting with 0.
ScanNumber(s, i) ==
    LET d == IF s[i] = "-" THEN i + 1 ELSE i
        e == IF d <= Len(s) /\ s[d] = "0" THEN d + 1 ELSE ScanDigits(s, d)
    IN  IF e = d THEN JFail ELSE JOk(JNum(SubSeq(s, i, e - 1)), e)

ScanLiteral(s, i) ==
    LET words == {<<"t","r","u","e">>, <<"f","a","l","s","e">>, <<"n","u","l","l">>}
        hit == {w \in words : OccursAt(s, w, i)}
    IN  IF hit = {} THEN JFail
        ELSE LET w == CHOOSE x \in hit : TRUE IN JOk(JLit(w), i + Len(w))

RECURSIVE ParseValue(_, _), ParseElements(_, _, _), ParseMembers(_, _, _, _)

\* The value that starts at position i (white space already skipped).
ParseValue(s, i) ==
    IF i > Len(s) THEN JFail
    ELSE IF s[i] = "\"" THEN ScanString(s, i + 1)
    ELSE IF s[i] = "["
         THEN LET j == SkipWs(s, i + 1)
              IN  IF j <= Len(s) /\ s[j] = "]" THEN JOk(JArr(<<>>), j + 1)
                  ELSE ParseElements(s, j, <<>>)
    ELSE IF s[i] = "{"
         THEN LET j == SkipWs(s, i + 1)
              IN  IF j <= Len(s) /\ s[j] = "}" THEN JOk(JObj(<<>>, <<>>), j + 1)
                  ELSE ParseMembers(s, j, <<>>, <<>>)
    ELSE IF s[i] \in Digits \cup {"-"} THEN ScanNumber(s, i)
    ELSE ScanLiteral(s, i)

\* The elements of an array from position i on, up to its closing bracket.
ParseElements(s, i, acc) ==
    LET r == ParseValue(s, i)
        j == SkipWs(s, r.next)
    IN  IF ~r.ok \/ j > Len(s) THEN JFail
        ELSE IF s[j] = "]" THEN JOk(JArr(Append(acc, r.v)), j + 1)
        ELSE IF s[j] = "," THEN ParseElements(s, SkipWs(s, j + 1), Append(acc, r.v))
        ELSE JFail

\* The members of an object from position i on, up to its closing brace.
ParseMembers(s, i, names, vals) ==
    IF i > Len(s) \/ s[i] # "\"" THEN JFail
    ELSE LET k == ScanString(s, i + 1)
             c == SkipWs(s, k.next)
         IN  IF ~k.ok \/ c > Len(s) \/ s[c] # ":" THEN JFail
             ELSE LET r == ParseValue(s, SkipWs(s, c + 1))
                      j == SkipWs(s, r.next)
                  IN  IF ~r.ok \/ j > Len(s) THEN JFail
                      ELSE IF s[j] = "}"
                           THEN JOk(JObj(Append(names, k.v.s), Append(vals, r.v)), j + 1)
                      ELSE IF s[j] = ","
                           THEN ParseMembers(s, SkipWs(s, j + 1),
                                             Append(names, k.v.s), Append(vals, r.v))
                      ELSE JFail

\* The outcome of json.loads(s) for the parse r of its first value: exc
\* stands for json.JSONDecodeError, raised also for text after the value.
Loaded(s, r) ==
    IF r.ok /\ SkipWs(s, r.next) > Len(s)
    THEN [exc |-> FALSE, val |-> r.v]
    ELSE [exc |-> TRUE, val |-> JLit(<<>>)]

JsonLoads(s) == Loaded(s, ParseValue(s, SkipWs(s, 1)))

\* key in d, for a dict d.
JHas(d, key) == \E k \in 1..Len(d.keys) : d.keys[k] = key

\* d[key]: a repeated member name keeps its last value.
JGet(d, key) == d.items[SetMax({k \in 1..Len(d.keys) : d.keys[k] = key})]

\* str(v) for a string, a number or a literal.
PyStr(v) ==
    IF v.t = "lit"
    THEN IF v.s = <<"n","u","l","l">> THEN <<"N","o","n","e">>
         ELSE IF v.s = <<"t","r","u","e">> THEN <<"T","r","u","e">>
         ELSE <<"F","a","l","s","e">>
    ELSE v.s

(***************************************************************************)
(* The response parsers: GeminiClauseExtractor._parse_clause_response,     *)
(* GeminiEntityExtractor._parse_entity_response and                        *)
(* GeminiQASystem._parse_search_results, with their fallbacks.             *)
(***************************************************************************)

T_TERMINATION == <<"T","E","R","M","I","N","A","T","I","O","N">>

T_PAYMENT == <<"P","A","Y","M","E","N","T">>

T_INDEMNIFICATION == <<"I","N","D","E","M","N","I","F","I","C","A","T","I","O","N">>

T_CONFIDENTIALITY == <<"C","O","N","F","I","D","E","N","T","I","A","L","I","T","Y">>

T_INTELLECTUAL_PROPERTY == <<"I","N","T","E","L","L","E","C","T","U","A","L","_","P","R","O","P","E","R","T","Y">>

T_FORCE_MAJEURE == <<"F","O","R","C","E","_","M","A","J","E","U","R","E">>

T_GOVERNING_LAW == <<"G","O","V","E","R","N","I","N","G","_","L","A","W">>

T_WARRANTIES == <<"W","A","R","R","A","N","T","I","E","S">>

T_LIMITATION_LIABILITY == <<"L","I","M","I","T","A","T","I","O","N","_","L","I","A","B","I","L","I","T","Y">>

T_ASSIGNMENT == <<"A","S","S","I","G","N","M","E","N","T">>

T_AMENDMENT == <<"A","M","E","N","D","M","E","N","T">>

T_DELIVERY == <<"D","E","L","I","V","E","R","Y">>

\* self.clause_types, in the order of its keys.
clause_types ==
    <<T_TERMINATION, T_PAYMENT, T_INDEMNIFICATION, T_CONFIDENTIALITY,
      T_INTELLECTUAL_PROPERTY, T_FORCE_MAJEURE, T_GOVERNING_LAW, T_WARRANTIES,
      T_LIMITATION_LIABILITY, T_ASSIGNMENT, T_AMENDMENT, T_DELIVERY>>

E_PERSONS == <<"P","E","R","S","O","N","S">>

E_ORGANIZATIONS == <<"O","R","G","A","N","I","Z","A","T","I","O","N","S">>

E_LOCATIONS == <<"L","O","C","A","T","I","O","N","S">>

E_DATES == <<"D","A","T","E","S">>

E_MONETARY_VALUES == <<"M","O","N","E","T","A","R","Y","_","V","A","L","U","E","S">>

E_LEGAL_REFERENCES == <<"L","E","G","A","L","_","R","E","F","E","R","E","N","C","E","S">>

E_AGREEMENTS == <<"A","G","R","E","E","M","E","N","T","S">>

E_LEGAL_CONCEPTS == <<"L","E","G","A","L","_","C","O","N","C","E","P","T","S">>

\* self.entity_categories, in the order of its keys.
entity_categories ==
    <<E_PERSONS, E_ORGANIZATIONS, E_LOCATIONS, E_DATES,
      E_MONETARY_VALUES, E_LEGAL_REFERENCES, E_AGREEMENTS, E_LEGAL_CONCEPTS>>

K_clause_type == <<"c","l","a","u","s","e","_","t","y","p","e">>

K_clause_text == <<"c","l","a","u","s","e","_","t","e","x","t">>

K_context == <<"c","o","n","t","e","x","t">>

K_importance == <<"i","m","p","o","r","t","a","n","c","e">>

K_section == <<"s","e","c","t","i","o","n">>

S_MEDIUM == <<"M","E","D","I","U","M">>

S_HIGH == <<"H","I","G","H">>

S_LOW == <<"L","O","W">>

S_Unknown == <<"U","n","k","n","o","w","n">>

\* A call's outcome: a returned value, or an exception that escaped it.
Return(v) == [exc |-> FALSE, val |-> v]

Raise == [exc |-> TRUE, val |-> <<>>]

\* A clause dict.
Clause(ty, tx, cx, im, se) ==
    [clause_type |-> ty, clause_text |-> tx, context |-> cx,
     importance |-> im, section |-> se]

\* d.get(key, default), as text.
FieldOr(d, key, default) == IF JHas(d, key) THEN PyStr(JGet(d, key)) ELSE default

\* "for x in v": the elements of a list, the keys of a dict, the characters
\* of a string; a number, a boolean or None is not iterable (TypeError).
Iterate(v) ==
    IF v.t = "arr" THEN Return(v.items)
    ELSE IF v.t = "obj" THEN Return([k \in 1..Len(v.keys) |-> JStr(v.keys[k])])
    ELSE IF v.t = "str" THEN Return([k \in 1..Len(v.s) |-> JStr(<<v.s[k]>>)])
    ELSE Raise

\* The validation loop of _parse_clause_response: .strip() of a clause_text
\* that is no string raises AttributeError.
RECURSIVE CleanClauses(_, _)
CleanClauses(elems, acc) ==
    IF elems = <<>> THEN Return(acc)
    ELSE LET c == Head(elems)
         IN  IF c.t = "obj" /\ JHas(c, K_clause_type) /\ JHas(c, K_clause_text)
             THEN IF JGet(c, K_clause_text).t # "str" THEN Raise
                  ELSE LET cleaned ==
                               Clause(FieldOr(c, K_clause_type, <<>>),
                                      Strip(JGet(c, K_clause_text).s),
                                      FieldOr(c, K_context, <<>>),
                                      FieldOr(c, K_importance, S_MEDIUM),
                                      FieldOr(c, K_section, S_Unknown))
                       IN  CleanClauses(Tail(elems),
                                        IF Len(cleaned.clause_text) > 20
                                        THEN Append(acc, cleaned) ELSE acc)
             ELSE CleanClauses(Tail(elems), acc)

MetaKeywords ==
    {<<"t","y","p","e",":">>, <<"c","o","n","t","e","x","t",":">>,
     <<"i","m","p","o","r","t","a","n","c","e",":">>}

\* The loop of _fallback_clause_parsing over the remaining lines; current
\* is <<>> while no clause is open and <<clause>> afterwards.
RECURSIVE FallbackClauseLines(_, _, _)
FallbackClauseLines(lines, clauses, current) ==
    IF lines = <<>> THEN clauses \o current
    ELSE LET line == Strip(Head(lines))
             low == Lower(line)
             hits == {k \in 1..Len(clause_types) :
                         Contains(low, Lower(clause_types[k])) /\ Contains(line, <<":">>)}
             clauses1 == IF hits # {} THEN clauses \o current ELSE clauses
             current1 == IF hits # {}
                         THEN <<Clause(clause_types[SetMin(hits)], <<>>, <<>>,
                                       S_MEDIUM, S_Unknown)>>
                         ELSE current
             meta == \E kw \in MetaKeywords : Contains(low, kw)
             current2 == IF current1 # <<>> /\ line # <<>> /\ ~meta /\ Len(line) > 20
                         THEN <<[current1[1] EXCEPT !.clause_text = line]>>
                         ELSE current1
         IN  FallbackClauseLines(Tail(lines), clauses1, current2)

_fallback_clause_parsing(response_text) ==
    FallbackClauseLines(SplitOn(response_text, "\n"), <<>>, <<>>)

\* The outcome of the try block of _parse_clause_response: a list of
\* clauses, or the kind of exception raised.
ParseRaised(kind) == [exc |-> TRUE, kind |-> kind, val |-> <<>>]

\* The validation loop over the elements the loaded value gives.
ValidateClauses(it) ==
    IF it.exc THEN ParseRaised("TypeError")
    ELSE LET cleaned == CleanClauses(it.val, <<>>)
         IN  IF cleaned.exc THEN ParseRaised("AttributeError")
             ELSE [exc |-> FALSE, kind |-> "", val |-> cleaned.val]

\* for clause in clauses, for the outcome of json.loads.
LoadedClauses(loaded) ==
    IF loaded.exc THEN ParseRaised("JSONDecodeError")
    ELSE ValidateClauses(Iterate(loaded.val))

\* The text handed to json.loads: from the first "[" to the last "]" when
\* both are found in this order, the whole response otherwise.
JsonArrayText(response_text, st, en) ==
    IF st # 0 /\ en >= st THEN Slice(response_text, st, en) ELSE response_text

\* The try block of _parse_clause_response.
ClauseParseBody(response_text) ==
    LoadedClauses(JsonLoads(JsonArrayText(response_text,
                                          Find(response_text, <<"[">>),
                                          RFind(response_text, <<"]">>))))

\* The except blocks of _parse_clause_response.
ClauseHandlers_NoHandlers(body, response_text) ==
    IF body.exc THEN Raise ELSE Return(body.val)

ClauseHandlers(body, response_text) ==
    IF ~body.exc THEN Return(body.val)
    ELSE IF body.kind = "JSONDecodeError"
    THEN Return(_fallback_clause_parsing(response_text))
    ELSE Return(<<>>)

_parse_clause_response(response_text) ==
    ClauseHandlers(ClauseParseBody(response_text), response_text)

\* bool(v)
Truthy(v) ==
    IF v.t = "str" THEN v.s # <<>>
    ELSE IF v.t = "num" THEN \E k \in 1..Len(v.s) : v.s[k] \notin {"0", "-"}
    ELSE IF v.t = "lit" THEN v.s = <<"t","r","u","e">>
    ELSE v.items # <<>>

\* The list comprehension of _parse_entity_response over one category's
\* list: .strip() of a truthy element that is no string raises
\* AttributeError; val is set(...) of the kept, stripped entities.
CleanEntityList(list) ==
    IF \E k \in 1..Len(list) : Truthy(list[k]) /\ list[k].t # "str"
    THEN [exc |-> TRUE, val |-> {}]
    ELSE [exc |-> FALSE,
          val |-> {Strip(list[k].s) :
                      k \in {j \in 1..Len(list) :
                                Truthy(list[j]) /\ Len(Strip(list[j].s)) > 1}}]

\* An entity list up to the order of its elements: each entity with the
\* number of times it occurs.
EmptyBag == [e \in {} |-> 0]

BagOfSet(S) == [e \in S |-> 1]

BagAdd(b, e) ==
    IF e \in DOMAIN b THEN [b EXCEPT ![e] = @ + 1] ELSE (e :> 1) @@ b

BagSize(b) ==
    LET RECURSIVE Sum(_)
        Sum(S) == IF S = {} THEN 0
                  ELSE LET e == CHOOSE x \in S : TRUE IN b[e] + Sum(S \ {e})
    IN  Sum(DOMAIN b)

\* The sets left when n elements of S are dropped.
RECURSIVE DropAny(_, _)
DropAny(S, n) ==
    IF n = 0 THEN {S} ELSE UNION {DropAny(S \ {x}, n - 1) : x \in S}

MaxEntitiesPerCategory == 20

\* list(set(...))[:20]: the order of a set's elements is arbitrary, so any
\* 20 of more than 20 entities may be the ones kept.
CapChoices(S) ==
    IF Cardinality(S) <= MaxEntitiesPerCategory THEN {S}
    ELSE DropAny(S, Cardinality(S) - MaxEntitiesPerCategory)

\* The cleaning loop of _parse_entity_response over a dict: the possible
\* cleaned_entities, each a function from category name to entity bag.
CleanEntities(d) ==
    LET names == {d.keys[k] : k \in 1..Len(d.keys)}
        lists == {n \in names : JGet(d, n).t = "arr"}
        kept == {n \in lists : CleanEntityList(JGet(d, n).items).val # {}}
        range == UNION {{BagOfSet(T) : T \in CapChoices(CleanEntityList(JGet(d, n).items).val)}
                           : n \in kept}
    IN  IF \E n \in lists : CleanEntityList(JGet(d, n).items).exc
        THEN {Raise}
        ELSE {Return(f) : f \in {g \in [kept -> range] :
                 \A n \in kept :
                    DOMAIN g[n] \in CapChoices(CleanEntityList(JGet(d, n).items).val)}}

\* str.lstrip(chars)
RECURSIVE LStrip(_, _)
LStrip(s, chars) ==
    IF s # <<>> /\ Head(s) \in chars THEN LStrip(Tail(s), chars) ELSE s

\* str(i) for 0 <= i <= 99
IntToChars(i) ==
    LET digit == <<"0","1","2","3","4","5","6","7","8","9">>
    IN  IF i < 10 THEN <<digit[i + 1]>> ELSE <<digit[(i \div 10) + 1], digit[(i % 10) + 1]>>

EntityBullet(line) ==
    \/ StartsWith(line, <<"-">>)
    \/ StartsWith(line, <<"*">>)
    \/ \E i \in 1..19 : StartsWith(line, IntToChars(i) \o <<".">>)

\* The loop of _fallback_entity_parsing over the remaining lines; current
\* is <<>> for current_category = None and <<category>> otherwise.
RECURSIVE FallbackEntityLines(_, _, _)
FallbackEntityLines(lines, entities, current) ==
    IF lines = <<>> THEN entities
    ELSE LET line == Strip(Head(lines))
             hits == {k \in 1..Len(entity_categories) :
                         Contains(Upper(line), entity_categories[k])
                         /\ Contains(line, <<":">>)}
             cat == entity_categories[SetMin(hits)]
             current1 == IF hits # {} THEN <<cat>> ELSE current
             entities1 == IF hits # {}
                          THEN [c \in DOMAIN entities \cup {cat} |->
                                   IF c = cat THEN EmptyBag ELSE entities[c]]
                          ELSE entities
             entity == Strip(LStrip(line, Digits \cup {"-", "*", ".", " "}))
             entities2 == IF current1 # <<>> /\ EntityBullet(line) /\ Len(entity) > 1
                          THEN [entities1 EXCEPT ![current1[1]] = BagAdd(@, entity)]
                          ELSE entities1
         IN  FallbackEntityLines(Tail(lines), entities2, current1)

_fallback_entity_parsing(response_text) ==
    FallbackEntityLines(SplitOn(response_text, "\n"), [c \in {} |-> EmptyBag], <<>>)

\* The text handed to json.loads: from the first "{" to the last "}" when
\* a "{" is found, the whole response otherwise.
JsonObjectText(response_text, st, en) ==
    IF st # 0 THEN Slice(response_text, st, en) ELSE response_text

\* The possible results of _parse_entity_response for the outcome of its
\* json.loads: the fallback parser runs on a JSONDecodeError, and any other
\* exception gives the empty dict.
EntityHandlers(loaded, response_text) ==
    IF loaded.exc THEN {Return(_fallback_entity_parsing(response_text))}
    ELSE IF loaded.val.t # "obj" THEN {Return([c \in {} |-> EmptyBag])}
    ELSE {IF r.exc THEN Return([c \in {} |-> EmptyBag]) ELSE r :
             r \in CleanEntities(loaded.val)}

\* The possible results of _parse_entity_response.
_parse_entity_response(response_text) ==
    EntityHandlers(JsonLoads(JsonObjectText(response_text,
                                            Find(response_text, <<"{">>),
                                            RFind(response_text, <<"}">>))),
                   response_text)

\* str.split(sep) for a separator of several characters.
RECURSIVE SplitOnStr(_, _)
SplitOnStr(s, sep) ==
    LET cut == Find(s, sep)
    IN  IF cut = 0
        THEN <<s>>
        ELSE <<Slice(s, 1, cut - 1)>> \o SplitOnStr(Slice(s, cut + Len(sep), Len(s)), sep)

\* str.replace(old, new): every occurrence, left to right.
RECURSIVE ReplaceAll(_, _, _)
ReplaceAll(s, old, new) ==
    LET at == Find(s, old)
    IN  IF at = 0
        THEN s
        ELSE Slice(s, 1, at - 1) \o new \o ReplaceAll(Slice(s, at + Len(old), Len(s)), old, new)

ResultMarker == <<"*","*","R","e","s","u","l","t">>

L_Text == <<"T","e","x","t",":">>

L_Relevance == <<"R","e","l","e","v","a","n","c","e",":">>

L_Context == <<"C","o","n","t","e","x","t",":">>

\* The loop of _parse_search_results over the lines of one section; field
\* is current_field, "" for None.
RECURSIVE SearchSectionLines(_, _, _)
SearchSectionLines(lines, result_data, field) ==
    IF lines = <<>> THEN result_data
    ELSE LET line == Strip(Head(lines))
             rest == Tail(lines)
         IN  IF StartsWith(line, L_Text)
             THEN SearchSectionLines(rest,
                      [result_data EXCEPT !.text = Strip(ReplaceAll(line, L_Text, <<>>))],
                      "text")
             ELSE IF StartsWith(line, L_Relevance)
             THEN SearchSectionLines(rest,
                      [result_data EXCEPT !.relevance = Strip(ReplaceAll(line, L_Relevance, <<>>))],
                      "relevance")
             ELSE IF StartsWith(line, L_Context)
             THEN SearchSectionLines(rest,
                      [result_data EXCEPT !.context = Strip(ReplaceAll(line, L_Context, <<>>))],
                      "context")
             ELSE IF field # "" /\ line # <<>>
             THEN SearchSectionLines(rest,
                      [result_data EXCEPT ![field] = @ \o <<" ">> \o line], field)
             ELSE SearchSectionLines(rest, result_data, field)

MaxSearchResults == 5

MinSearchTextLen == 10

\* The loop of _parse_search_results over the sections after the first.
RECURSIVE SearchSections(_, _, _)
SearchSections(sections, query, results) ==
    IF sections = <<>> THEN results
    ELSE LET result_data ==
                 SearchSectionLines(SplitOn(Strip(Head(sections)), "\n"),
                     [text |-> <<>>, relevance |-> <<>>, context |-> <<>>, query |-> query],
                     "")
         IN  SearchSections(Tail(sections), query,
                 IF Len(result_data.text) > MinSearchTextLen
                 THEN Append(results, result_data) ELSE results)

_parse_search_results_NoCap(response_text, query) ==
    Return(SearchSections(Tail(SplitOnStr(response_text, ResultMarker)), query, <<>>))

_parse_search_results(response_text, query) ==
    Return(Take(SearchSections(Tail(SplitOnStr(response_text, ResultMarker)), query, <<>>),
                MaxSearchResults))

(***************************************************************************)
(* GeminiClauseExtractor.highlight_clauses_in_text.  The working copy is   *)
(* the record [text, origin, owner]: text is highlighted_text; origin and  *)
(* owner follow it character by character and record where each character *)
(* came from (origin: its position in the input document, 0 for inserted   *)
(* markup; owner: for markup, the loop iteration that inserted it).  The   *)
(* code reads text only.                                                   *)
(***************************************************************************)

\* color_map, in the order of clause_types.
color_map ==
    <<<<"#","f","f","c","c","c","c">>,
      <<"#","c","c","f","f","c","c">>,
      <<"#","f","f","c","c","9","9">>,
      <<"#","c","c","c","c","f","f">>,
      <<"#","f","f","c","c","f","f">>,
      <<"#","f","f","f","f","c","c">>,
      <<"#","c","c","f","f","f","f">>,
      <<"#","f","0","c","c","f","f">>,
      <<"#","f","f","c","c","d","d">>,
      <<"#","c","c","f","f","d","d">>,
      <<"#","d","d","c","c","f","f">>,
      <<"#","d","d","f","f","c","c">>>>

DefaultColor ==
    <<"#","f","0","f","0","f","0">>

SpanStyleOpen ==
    <<"<","s","p","a","n"," ","s","t","y","l","e","=","\"","b","a","c","k","g","r","o","u","n",
      "d","-","c","o","l","o","r",":"," ">>

SpanStyleRest ==
    <<";"," ","p","a","d","d","i","n","g",":"," ","2","p","x",";"," ","b","o","r","d","e","r",
      "-","l","e","f","t",":"," ","3","p","x"," ","s","o","l","i","d"," ","#","3","3","3",";",
      " ","m","a","r","g","i","n",":"," ","2","p","x",";","\""," ","t","i","t","l","e","=",
      "\"">>

SpanTitleEnd ==
    <<"\"",">">>

SpanClose ==
    <<"<","/","s","p","a","n",">">>

\* color_map.get(clause_type, '#f0f0f0')
ColorOf(clause_type) ==
    IF \E k \in 1..Len(clause_types) : clause_types[k] = clause_type
    THEN color_map[CHOOSE k \in 1..Len(clause_types) : clause_types[k] = clause_type]
    ELSE DefaultColor

\* The markup in front of the clause text in highlight_span.
SpanOpen(clause) ==
    SpanStyleOpen \o ColorOf(clause.clause_type) \o SpanStyleRest
        \o clause.clause_type \o <<":", " ">> \o clause.context \o SpanTitleEnd

\* sorted(clauses, key=len(clause_text), reverse=True): longest first, and
\* clauses of equal length in their original order (the sort is stable).
RECURSIVE SortLongestFirst(_)
SortLongestFirst(clauses) ==
    IF clauses = <<>> THEN <<>>
    ELSE LET longest == SetMax({Len(clauses[k].clause_text) : k \in 1..Len(clauses)})
             first == SetMin({k \in 1..Len(clauses) : Len(clauses[k].clause_text) = longest})
         IN  <<clauses[first]>>
                 \o SortLongestFirst(SubSeq(clauses, 1, first - 1)
                                         \o SubSeq(clauses, first + 1, Len(clauses)))

Fill(n, x) == [k \in 1..n |-> x]

WorkingCopy(text) ==
    [text |-> text, origin |-> [k \in 1..Len(text) |-> k], owner |-> Fill(Len(text), 0)]

\* The position at which the loop body replaces clause_text, 0 when the
\* condition of the if fails.
MatchAt(h, clause_text) ==
    IF clause_text # <<>> /\ Contains(h.text, clause_text)
    THEN Find(h.text, clause_text) ELSE 0

\* As HighlightStep, but the replacement also takes the character that
\* follows the clause text.
HighlightStep_TakesNextCharacter(h, clause, i) ==
    LET clause_text == Strip(clause.clause_text)
        at == MatchAt(h, clause_text)
        n == Len(clause_text)
        open == SpanOpen(clause)
        Splice(seq, before, inside, after) ==
            Slice(seq, 1, at - 1) \o before \o inside \o after
                \o Slice(seq, at + n + 1, Len(seq))
    IN  IF at = 0 THEN h
        ELSE [text   |-> Splice(h.text, open, clause_text, SpanClose),
              origin |-> Splice(h.origin, Fill(Len(open), 0),
                                SubSeq(h.origin, at, at + n - 1),
                                Fill(Len(SpanClose), 0)),
              owner  |-> Splice(h.owner, Fill(Len(open), i),
                                SubSeq(h.owner, at, at + n - 1),
                                Fill(Len(SpanClose), i))]

\* One iteration of the loop: clause is sorted_clauses[i].
HighlightStep(h, clause, i) ==
    LET clause_text == Strip(clause.clause_text)
        at == MatchAt(h, clause_text)
        n == Len(clause_text)
        open == SpanOpen(clause)
        Splice(seq, before, inside, after) ==
            Slice(seq, 1, at - 1) \o before \o inside \o after
                \o Slice(seq, at + n, Len(seq))
    IN  IF at = 0 THEN h
        ELSE [text   |-> Splice(h.text, open, clause_text, SpanClose),
              origin |-> Splice(h.origin, Fill(Len(open), 0),
                                SubSeq(h.origin, at, at + n - 1),
                                Fill(Len(SpanClose), 0)),
              owner  |-> Splice(h.owner, Fill(Len(open), i),
                                SubSeq(h.owner, at, at + n - 1),
                                Fill(Len(SpanClose), i))]

RECURSIVE HighlightLoop(_, _, _)
HighlightLoop(h, sorted_clauses, i) ==
    IF i > Len(sorted_clauses) THEN h
    ELSE HighlightLoop(HighlightStep(h, sorted_clauses[i], i), sorted_clauses, i + 1)

highlight_clauses_in_text(text, clauses) ==
    HighlightLoop(WorkingCopy(text), SortLongestFirst(clauses), 1).text

(***************************************************************************)
(* GeminiQASystem: _estimate_confidence, _extract_relevant_sections,       *)
(* answer_question and search_document.                                    *)
(*                                                                         *)
(* A confidence is a Python float.  The floats that arise are written      *)
(* [t, e]: the double nearest to t/10 plus e * 2^-54, so that 0.8 is       *)
(* [8, 0] and 0.8 - 0.2 = 0.6000000000000001 is [6, 2].  FSub02 and FAdd01 *)
(* are IEEE-754 double subtraction of 0.2 and addition of 0.1 on them.     *)
(***************************************************************************)

Flt(t, e) == [t |-> t, e |-> e]

FLeq(x, y) == x.t < y.t \/ (x.t = y.t /\ x.e <= y.e)

FMax(x, y) == IF FLeq(y, x) THEN x ELSE y

FMin(x, y) == IF FLeq(x, y) THEN x ELSE y

\* confidence -= 0.2
FSub02(x) ==
    CASE x = Flt(8, 0) -> Flt(6, 2)
      [] x = Flt(6, 2) -> Flt(4, 1)
      [] x = Flt(4, 1) -> Flt(2, 1)
      [] x = Flt(2, 1) -> Flt(0, 1)
      [] x = Flt(0, 1) -> Flt(-2, 1)
      [] x = Flt(-2, 1) -> Flt(-4, 1)

\* confidence += 0.1
FAdd01(x) ==
    CASE x = Flt(8, 0) -> Flt(9, 0)
      [] x = Flt(6, 2) -> Flt(7, 2)
      [] x = Flt(4, 1) -> Flt(5, 2)
      [] x = Flt(2, 1) -> Flt(3, 1)
      [] x = Flt(0, 1) -> Flt(1, 1)
      [] x = Flt(-2, 1) -> Flt(-1, 1)
      [] x = Flt(-4, 1) -> Flt(-3, 1)

\* uncertain_phrases
uncertain_phrases ==
    <<<<"m","i","g","h","t">>,
      <<"c","o","u","l","d">>,
      <<"p","o","s","s","i","b","l","y">>,
      <<"u","n","c","l","e","a","r">>,
      <<"n","o","t"," ","s","p","e","c","i","f","i","e","d">>,
      <<"n","o","t"," ","m","e","n","t","i","o","n","e","d">>>>

W_section == <<"s","e","c","t","i","o","n">>

\* The loop over uncertain_phrases from the k-th phrase on.
RECURSIVE LowerForPhrases(_, _, _)
LowerForPhrases(low, k, confidence) ==
    IF k > Len(uncertain_phrases) THEN confidence
    ELSE LowerForPhrases(low, k + 1,
             IF Contains(low, uncertain_phrases[k]) THEN FSub02(confidence) ELSE confidence)

\* The last line of _estimate_confidence: max(0.1, min(1.0, confidence)).
ClampConfidence_NoFloor(confidence) == FMin(Flt(10, 0), confidence)

ClampConfidence(confidence) == FMax(Flt(1, 0), FMin(Flt(10, 0), confidence))

_estimate_confidence_NoBonus(answer_text) ==
    IF answer_text = <<>> THEN Flt(0, 0)
    ELSE ClampConfidence(LowerForPhrases(Lower(answer_text), 1, Flt(8, 0)))

_estimate_confidence(answer_text) ==
    IF answer_text = <<>> THEN Flt(0, 0)
    ELSE LET lowered == LowerForPhrases(Lower(answer_text), 1, Flt(8, 0))
             quoted == Contains(answer_text, <<"\"">>)
                          \/ Contains(Lower(answer_text), W_section)
         IN  ClampConfidence(IF quoted THEN FAdd01(lowered) ELSE lowered)

\* str.split(): the maximal runs of characters that are no white space.
RECURSIVE Words(_)
Words(s) ==
    LET t == LStrip(s, Whitespace)
        stops == {i \in 1..Len(t) : t[i] \in Whitespace}
        n == IF stops = {} THEN Len(t) ELSE SetMin(stops) - 1
    IN  IF t = <<>> THEN <<>>
        ELSE <<SubSeq(t, 1, n)>> \o Words(Slice(t, n + 1, Len(t)))

SeqToSet(seq) == {seq[k] : k \in 1..Len(seq)}

MinSentenceLen == 20

MinWordOverlap == 3

MaxSections == 3

MaxSectionLen == 200

\* The loop of _extract_relevant_sections over the remaining sentences.
RECURSIVE RelevantLoop(_, _, _)
RelevantLoop(sentences, answer_words, sections) ==
    IF sentences = <<>> THEN sections
    ELSE LET sentence == Head(sentences)
             overlap == Cardinality(answer_words \cap SeqToSet(Words(Lower(sentence))))
             sections1 == IF overlap >= MinWordOverlap
                          THEN Append(sections,
                                   IF Len(sentence) > MaxSectionLen
                                   THEN Take(Strip(sentence), MaxSectionLen) \o <<".", ".", ".">>
                                   ELSE Strip(sentence))
                          ELSE sections
         IN  IF Len(sections1) >= MaxSections THEN sections1
             ELSE RelevantLoop(Tail(sentences), answer_words, sections1)

_extract_relevant_sections(document_text, question, answer) ==
    LET pieces == SplitOn(document_text, ".")
        doc_sentences == SelectIdx([k \in 1..Len(pieces) |-> Strip(pieces[k])],
                                   {k \in 1..Len(pieces) : Len(Strip(pieces[k])) > MinSentenceLen})
    IN  RelevantLoop(doc_sentences, SeqToSet(Words(Lower(answer))), <<>>)

SorryPrefix ==
    <<"S","o","r","r","y",","," ","I"," ","c","o","u","l","d","n","'","t"," ","a","n","s","w",
      "e","r"," ","t","h","i","s"," ","q","u","e","s","t","i","o","n","."," ","E","r","r","o",
      "r",":"," ">>

ErrorPrefix ==
    <<"E","r","r","o","r"," ","p","r","o","c","e","s","s","i","n","g"," ","q","u","e","s","t",
      "i","o","n",":"," ">>

MaxContextClauses == 3

\* What answer_question puts into the prompt: the document, the question,
\* and the first three context clauses.
QAPrompt(document_text, question, context_clauses) ==
    [document_text |-> document_text, question |-> question,
     context_info |-> Take(context_clauses, MaxContextClauses)]

\* An exception with the text str(e) gives.
Raised(error) == [exc |-> TRUE, val |-> error]

NoneNotSubscriptable ==
    <<"'","N","o","n","e","T","y","p","e","'"," ","o","b","j","e","c","t"," ","i","s"," ","n",
      "o","t"," ","s","u","b","s","c","r","i","p","t","a","b","l","e">>

NoneHasNoLen ==
    <<"o","b","j","e","c","t"," ","o","f"," ","t","y","p","e"," ","'","N","o","n","e","T","y",
      "p","e","'"," ","h","a","s"," ","n","o"," ","l","e","n","(",")">>

\* The dict answer_question returns from its except block.
AnswerFailure(question, prefix, error) ==
    [question |-> question, answer |-> prefix \o error, confidence |-> Flt(0, 0),
     relevant_sections |-> <<>>, context_clauses_used |-> 0]

\* The try block of GeminiQASystem.answer_question.  question is <<text>>,
\* or <<>> for None, whose slice in the log call raises TypeError;
\* generated is the outcome of self.model.generate_content: Raised(error)
\* or Return(response.text).
AnswerBody(document_text, question, context_clauses, generated) ==
    IF generated.exc THEN Raised(generated.val)
    ELSE IF question = <<>> THEN Raised(NoneNotSubscriptable)
    ELSE Return([question |-> question,
                 answer |-> Strip(generated.val),
                 confidence |-> _estimate_confidence(generated.val),
                 relevant_sections |->
                     _extract_relevant_sections(document_text, question, generated.val),
                 context_clauses_used |-> Len(context_clauses)])

\* The except block of GeminiQASystem.answer_question.
AnswerHandler(body, question) ==
    IF body.exc THEN Return(AnswerFailure(question, SorryPrefix, body.val)) ELSE body

\* GeminiQASystem.answer_question
QA_answer_question(document_text, question, context_clauses, generated) ==
    AnswerHandler(AnswerBody(document_text, question, context_clauses, generated),
                  question)

\* The except block of EnhancedLegalDocumentProcessor.answer_question.
AnswerWrapper(r, question) ==
    IF r.exc THEN Return(AnswerFailure(question, ErrorPrefix, r.val)) ELSE r

\* EnhancedLegalDocumentProcessor.answer_question
answer_question(document_text, question, context_clauses, generated) ==
    AnswerWrapper(QA_answer_question(document_text, question, context_clauses, generated),
                  question)

\* The dict GeminiQASystem.search_document returns from its except block.
SearchFailure(search_query, error, document_text) ==
    [query |-> search_query, results |-> <<>>, total_results |-> 0,
     error |-> error, document_length |-> Len(document_text)]

\* The dict search_document returns for the outcome of its parser.
SearchData(document_text, search_query, search_results) ==
    IF search_results.exc
    THEN SearchFailure(search_query, search_results.val, document_text)
    ELSE [query |-> search_query,
          results |-> search_results.val,
          total_results |-> Len(search_results.val),
          document_length |-> Len(document_text)]

\* GeminiQASystem.search_document.  document_text is <<text>>, or <<>> for
\* None, whose len() raises TypeError in the try block and again in the
\* except block; generated is the outcome of
\* self.flash_model.generate_content.
QA_search_document(document_text, search_query, generated) ==
    IF document_text = <<>> THEN Raised(NoneHasNoLen)
    ELSE Return(SearchData(document_text[1], search_query,
                           IF generated.exc THEN Raised(generated.val)
                           ELSE _parse_search_results(generated.val, search_query)))

\* The except block of EnhancedLegalDocumentProcessor.search_document.
SearchWrapper(r, search_query) ==
    IF r.exc
    THEN Return([query |-> search_query, results |-> <<>>, total_results |-> 0,
                 error |-> r.val])
    ELSE r

\* EnhancedLegalDocumentProcessor.search_document
search_document(document_text, search_query, generated) ==
    SearchWrapper(QA_search_document(document_text, search_query, generated),
                  search_query)

(***************************************************************************)
(* EnhancedLegalDocumentProcessor.get_clause_context_for_question.  The    *)
(* question is <<text>>, or <<>> for None.                                 *)
(***************************************************************************)

\* keyword_mapping, in the order of its keys.
keyword_mapping ==
    <<[keyword |-> <<"p","a","y","m","e","n","t">>,
       types |-> {T_PAYMENT}],
      [keyword |-> <<"t","e","r","m","i","n","a","t","e">>,
       types |-> {T_TERMINATION}],
      [keyword |-> <<"e","n","d">>,
       types |-> {T_TERMINATION}],
      [keyword |-> <<"l","i","a","b","i","l","i","t","y">>,
       types |-> {T_LIMITATION_LIABILITY, T_INDEMNIFICATION}],
      [keyword |-> <<"c","o","n","f","i","d","e","n","t","i","a","l">>,
       types |-> {T_CONFIDENTIALITY}],
      [keyword |-> <<"i","n","t","e","l","l","e","c","t","u","a","l"," ","p","r","o","p","e","r","t","y">>,
       types |-> {T_INTELLECTUAL_PROPERTY}],
      [keyword |-> <<"i","p">>,
       types |-> {T_INTELLECTUAL_PROPERTY}],
      [keyword |-> <<"l","a","w">>,
       types |-> {T_GOVERNING_LAW}],
      [keyword |-> <<"j","u","r","i","s","d","i","c","t","i","o","n">>,
       types |-> {T_GOVERNING_LAW}],
      [keyword |-> <<"f","o","r","c","e"," ","m","a","j","e","u","r","e">>,
       types |-> {T_FORCE_MAJEURE}],
      [keyword |-> <<"a","s","s","i","g","n","m","e","n","t">>,
       types |-> {T_ASSIGNMENT}],
      [keyword |-> <<"w","a","r","r","a","n","t","y">>,
       types |-> {T_WARRANTIES}],
      [keyword |-> <<"d","e","l","i","v","e","r">>,
       types |-> {T_DELIVERY}]>>

MaxRelevantClauses == 3

\* The clauses of the list that satisfy Keep, in order.
Filter(clauses, Keep(_)) ==
    SelectIdx(clauses, {k \in 1..Len(clauses) : Keep(clauses[k])})

\* The loop over keyword_mapping from the k-th keyword on.
RECURSIVE CollectByKeyword(_, _, _, _)
CollectByKeyword(clauses, question_lower, k, relevant_clauses) ==
    IF k > Len(keyword_mapping) THEN relevant_clauses
    ELSE LET InTypes(c) == c.clause_type \in keyword_mapping[k].types
         IN  CollectByKeyword(clauses, question_lower, k + 1,
                 IF Contains(question_lower, keyword_mapping[k].keyword)
                 THEN relevant_clauses \o Filter(clauses, InTypes)
                 ELSE relevant_clauses)

\* return relevant_clauses[:3]
LimitRelevant_NoLimit(relevant_clauses) == relevant_clauses

LimitRelevant(relevant_clauses) == Take(relevant_clauses, MaxRelevantClauses)

get_clause_context_for_question_DocumentOrder(clauses, question) ==
    IF question = <<>> THEN <<>>
    ELSE LET present == {k \in 1..Len(keyword_mapping) :
                            Contains(Lower(question[1]), keyword_mapping[k].keyword)}
             Mapped(c) == \E k \in present : c.clause_type \in keyword_mapping[k].types
             IsHigh(c) == c.importance = S_HIGH
             by_keyword == Filter(clauses, Mapped)
         IN  LimitRelevant(IF by_keyword = <<>>
                           THEN Take(Filter(clauses, IsHigh), MaxRelevantClauses)
                           ELSE by_keyword)

\* As get_clause_context_for_question, with the keyword loop run twice.
get_clause_context_for_question_LoopTwice(clauses, question) ==
    IF question = <<>> THEN <<>>
    ELSE LET once == CollectByKeyword(clauses, Lower(question[1]), 1, <<>>)
             by_keyword == CollectByKeyword(clauses, Lower(question[1]), 1, once)
             IsHigh(c) == c.importance = S_HIGH
             relevant_clauses == IF by_keyword = <<>>
                                 THEN Take(Filter(clauses, IsHigh), MaxRelevantClauses)
                                 ELSE by_keyword
         IN  LimitRelevant(relevant_clauses)

get_clause_context_for_question(clauses, question) ==
    IF question = <<>> THEN <<>>
    ELSE LET by_keyword == CollectByKeyword(clauses, Lower(question[1]), 1, <<>>)
             IsHigh(c) == c.importance = S_HIGH
             relevant_clauses == IF by_keyword = <<>>
                                 THEN Take(Filter(clauses, IsHigh), MaxRelevantClauses)
                                 ELSE by_keyword
         IN  LimitRelevant(relevant_clauses)

(***************************************************************************)
(* GeminiSummarizer.  generated is the outcome of the generate_content     *)
(* call: Return(response text), or Raise when the call (or reading         *)
(* response.text) fails.                                                   *)
(***************************************************************************)

\* The bullet character U+2022, one element of a text.
BulletChar == "U+2022"

ErrorGeneratingSummary ==
    <<"E","r","r","o","r"," ","g","e","n","e","r","a","t","i","n","g"," ","s","u","m","m","a","r","y">>

MaxKeyPoints == 10

MinKeyPointLen == 10

KeyPointPrefixes ==
    {<<"1", ".">>, <<"2", ".">>, <<"3", ".">>, <<"4", ".">>, <<"5", ".">>,
     <<BulletChar>>, <<"-">>, <<"*">>}

KeyIndicators ==
    {<<"k","e","y">>, <<"i","m","p","o","r","t","a","n","t">>, <<"c","r","i","t","i","c","a","l">>}

\* The stripped lines of a text.
StrippedLines(text) ==
    LET lines == SplitOn(text, "\n") IN [k \in 1..Len(lines) |-> Strip(lines[k])]

_extract_key_points(summary_text) ==
    LET lines == StrippedLines(summary_text)
        IsKeyPoint(line) ==
            /\ \/ \E p \in KeyPointPrefixes : StartsWith(line, p)
               \/ \E w \in KeyIndicators : Contains(Lower(line), w)
            /\ Len(line) > MinKeyPointLen
    IN  Take(SelectIdx(lines, {k \in 1..Len(lines) : IsKeyPoint(lines[k])}), MaxKeyPoints)

\* len(response.text) / len(text) if len(text) > 0 else 0, as a fraction.
CompressionRatio(summary_length, original_length) ==
    IF original_length > 0
    THEN [num |-> summary_length, den |-> original_length]
    ELSE [num |-> 0, den |-> 1]

summarize_document(text, summary_type, generated) ==
    IF generated.exc
    THEN [summary |-> ErrorGeneratingSummary,
          summary_type |-> summary_type,
          original_length |-> Len(text),
          summary_length |-> 0,
          compression_ratio |-> [num |-> 0, den |-> 1],
          key_points |-> <<>>]
    ELSE [summary |-> generated.val,
          summary_type |-> summary_type,
          original_length |-> Len(text),
          summary_length |-> Len(generated.val),
          compression_ratio |-> CompressionRatio(Len(generated.val), Len(text)),
          key_points |-> _extract_key_points(generated.val)]

MaxNumberedBullet == 99

generate_bullet_points(text, generated) ==
    IF generated.exc THEN <<>>
    ELSE LET lines == StrippedLines(generated.val)
             IsBullet(line) ==
                 /\ line # <<>>
                 /\ \/ StartsWith(line, <<BulletChar>>)
                    \/ StartsWith(line, <<"-">>)
                    \/ StartsWith(line, <<"*">>)
                    \/ \E i \in 1..MaxNumberedBullet :
                          StartsWith(line, IntToChars(i) \o <<".">>)
         IN  SelectIdx(lines, {k \in 1..Len(lines) : IsBullet(lines[k])})

EmptyRiskAnalysis ==
    [high_risks |-> <<>>, medium_risks |-> <<>>,
     recommendations |-> <<>>, compliance_notes |-> <<>>]

H_HIGH_RISK ==
    <<"H","I","G","H"," ","R","I","S","K">>

H_MEDIUM_RISK ==
    <<"M","E","D","I","U","M"," ","R","I","S","K">>

H_RECOMMENDATIONS ==
    <<"R","E","C","O","M","M","E","N","D","A","T","I","O","N","S">>

H_COMPLIANCE ==
    <<"C","O","M","P","L","I","A","N","C","E">>

\* The loop of _parse_risk_analysis over the remaining lines;
\* current_section is "" for None.
RECURSIVE RiskLines(_, _, _)
RiskLines(lines, analysis, current_section) ==
    IF lines = <<>> THEN analysis
    ELSE LET line == Head(lines)
             up == Upper(line)
         IN  IF Contains(up, H_HIGH_RISK)
             THEN RiskLines(Tail(lines), analysis, "high_risks")
             ELSE IF Contains(up, H_MEDIUM_RISK)
             THEN RiskLines(Tail(lines), analysis, "medium_risks")
             ELSE IF Contains(up, H_RECOMMENDATIONS)
             THEN RiskLines(Tail(lines), analysis, "recommendations")
             ELSE IF Contains(up, H_COMPLIANCE)
             THEN RiskLines(Tail(lines), analysis, "compliance_notes")
             ELSE IF StartsWith(line, <<"-">>) /\ current_section # ""
             THEN RiskLines(Tail(lines),
                            [analysis EXCEPT ![current_section] =
                                Append(@, Strip(Tail(line)))],
                            current_section)
             ELSE RiskLines(Tail(lines), analysis, current_section)

_parse_risk_analysis(analysis_text) ==
    RiskLines(StrippedLines(analysis_text), EmptyRiskAnalysis, "")

\* As analyze_legal_risks, with the failure noted in the returned dict.
analyze_legal_risks_ErrorNote(text, generated) ==
    IF generated.exc
    THEN [high_risks |-> <<>>, medium_risks |-> <<>>, recommendations |-> <<>>,
          compliance_notes |-> <<>>, error |-> "generate_content failed"]
    ELSE _parse_risk_analysis(generated.val)

analyze_legal_risks(text, generated) ==
    IF generated.exc THEN EmptyRiskAnalysis ELSE _parse_risk_analysis(generated.val)

(***************************************************************************)
(* GeminiQASystem.get_suggested_questions                                  *)
(***************************************************************************)

\* question_categories, as the lists of its categories in the order of its
\* keys: parties, terms, payment, termination, obligations, legal.
question_categories ==
    <<<<<<"W","h","o"," ","a","r","e"," ","t","h","e"," ","p","a","r","t","i","e","s"," ","t","o"," ","t","h","i","s"," ","a","g","r","e","e","m","e","n","t","?">>,
        <<"W","h","a","t"," ","a","r","e"," ","t","h","e"," ","r","o","l","e","s"," ","o","f"," ","e","a","c","h"," ","p","a","r","t","y","?">>,
        <<"W","h","o"," ","i","s"," ","t","h","e"," ","p","r","i","m","a","r","y"," ","c","o","n","t","r","a","c","t","o","r","/","c","l","i","e","n","t","?">>>>,
      <<<<"W","h","a","t"," ","i","s"," ","t","h","e"," ","d","u","r","a","t","i","o","n"," ","o","f"," ","t","h","i","s"," ","a","g","r","e","e","m","e","n","t","?">>,
        <<"W","h","e","n"," ","d","o","e","s"," ","t","h","i","s"," ","c","o","n","t","r","a","c","t"," ","e","x","p","i","r","e","?">>,
        <<"W","h","a","t"," ","a","r","e"," ","t","h","e"," ","k","e","y"," ","d","a","t","e","s"," ","a","n","d"," ","d","e","a","d","l","i","n","e","s","?">>>>,
      <<<<"W","h","a","t"," ","a","r","e"," ","t","h","e"," ","p","a","y","m","e","n","t"," ","t","e","r","m","s","?">>,
        <<"H","o","w"," ","m","u","c","h"," ","w","i","l","l"," ","b","e"," ","p","a","i","d"," ","a","n","d"," ","w","h","e","n","?">>,
        <<"A","r","e"," ","t","h","e","r","e"," ","a","n","y"," ","p","e","n","a","l","t","y"," ","f","e","e","s"," ","m","e","n","t","i","o","n","e","d","?">>>>,
      <<<<"H","o","w"," ","c","a","n"," ","t","h","i","s"," ","a","g","r","e","e","m","e","n","t"," ","b","e"," ","t","e","r","m","i","n","a","t","e","d","?">>,
        <<"W","h","a","t"," ","n","o","t","i","c","e"," ","p","e","r","i","o","d"," ","i","s"," ","r","e","q","u","i","r","e","d"," ","f","o","r"," ","t","e","r","m","i","n","a","t","i","o","n","?">>,
        <<"W","h","a","t"," ","h","a","p","p","e","n","s"," ","u","p","o","n"," ","t","e","r","m","i","n","a","t","i","o","n","?">>>>,
      <<<<"W","h","a","t"," ","a","r","e"," ","t","h","e"," ","m","a","i","n"," ","o","b","l","i","g","a","t","i","o","n","s"," ","o","f"," ","e","a","c","h"," ","p","a","r","t","y","?">>,
        <<"W","h","a","t"," ","d","e","l","i","v","e","r","a","b","l","e","s"," ","a","r","e"," ","e","x","p","e","c","t","e","d","?">>,
        <<"W","h","a","t"," ","a","r","e"," ","t","h","e"," ","p","e","r","f","o","r","m","a","n","c","e"," ","r","e","q","u","i","r","e","m","e","n","t","s","?">>>>,
      <<<<"W","h","a","t"," ","l","a","w"," ","g","o","v","e","r","n","s"," ","t","h","i","s"," ","a","g","r","e","e","m","e","n","t","?">>,
        <<"H","o","w"," ","a","r","e"," ","d","i","s","p","u","t","e","s"," ","r","e","s","o","l","v","e","d","?">>,
        <<"A","r","e"," ","t","h","e","r","e"," ","a","n","y"," ","l","i","a","b","i","l","i","t","y"," ","l","i","m","i","t","a","t","i","o","n","s","?">>>>>>

\* The questions returned when the model call fails.
DefaultQuestions ==
    <<<<"W","h","o"," ","a","r","e"," ","t","h","e"," ","p","a","r","t","i","e","s"," ","t","o"," ","t","h","i","s"," ","a","g","r","e","e","m","e","n","t","?">>,
      <<"W","h","a","t"," ","a","r","e"," ","t","h","e"," ","m","a","i","n"," ","t","e","r","m","s"," ","a","n","d"," ","c","o","n","d","i","t","i","o","n","s","?">>,
      <<"W","h","a","t"," ","a","r","e"," ","t","h","e"," ","p","a","y","m","e","n","t"," ","o","b","l","i","g","a","t","i","o","n","s","?">>,
      <<"H","o","w"," ","c","a","n"," ","t","h","i","s"," ","a","g","r","e","e","m","e","n","t"," ","b","e"," ","t","e","r","m","i","n","a","t","e","d","?">>,
      <<"W","h","a","t"," ","a","r","e"," ","t","h","e"," ","k","e","y"," ","d","a","t","e","s"," ","a","n","d"," ","d","e","a","d","l","i","n","e","s","?">>,
      <<"W","h","a","t"," ","l","a","w"," ","g","o","v","e","r","n","s"," ","t","h","i","s"," ","a","g","r","e","e","m","e","n","t","?">>>>

PerCategory == 2

MinQuestionLen == 10

MinParsedQuestions == 6

FillTarget == 8

MaxSuggestedQuestions == 10

\* The question a stripped line of the response holds, <<>> if it holds none.
QuestionOfLine(line) ==
    IF line # <<>> /\ (Head(line) \in Digits \/ StartsWith(line, <<"-">>)
                                              \/ StartsWith(line, <<BulletChar>>))
    THEN LET dot == Find(line, <<".">>)
             after == IF dot # 0 THEN Strip(Slice(line, dot + 1, Len(line))) ELSE line
             question == Strip(LStrip(after, {"-", " ", BulletChar}))
         IN  IF question # <<>> /\ Len(question) > MinQuestionLen
                                /\ EndsWith(question, <<"?">>)
             THEN <<question>>
             ELSE <<>>
    ELSE <<>>

\* The fill loop over category_questions from its k-th question on.
RECURSIVE FillQuestions(_, _, _)
FillQuestions(category_questions, k, suggested_questions) ==
    IF k > Len(category_questions) THEN suggested_questions
    ELSE FillQuestions(category_questions, k + 1,
             IF /\ Len(suggested_questions) < FillTarget
                /\ \A j \in 1..Len(suggested_questions) :
                      suggested_questions[j] # category_questions[k]
             THEN Append(suggested_questions, category_questions[k])
             ELSE suggested_questions)

\* As get_suggested_questions, without the category questions.
get_suggested_questions_NoFill(document_text, generated) ==
    IF generated.exc THEN DefaultQuestions
    ELSE LET lines == StrippedLines(generated.val)
             parsed == Concat([k \in 1..Len(lines) |-> QuestionOfLine(lines[k])])
         IN  Take(parsed, MaxSuggestedQuestions)

get_suggested_questions(document_text, generated) ==
    IF generated.exc THEN DefaultQuestions
    ELSE LET lines == StrippedLines(generated.val)
             parsed == Concat([k \in 1..Len(lines) |-> QuestionOfLine(lines[k])])
             category_questions ==
                 Concat([c \in 1..Len(question_categories) |->
                            Take(question_categories[c], PerCategory)])
             suggested_questions ==
                 IF Len(parsed) < MinParsedQuestions
                 THEN FillQuestions(category_questions, 1, parsed)
                 ELSE parsed
         IN  Take(suggested_questions, MaxSuggestedQuestions)

(***************************************************************************)
(* GeminiEntityExtractor.extract_entities / extract_legal_relationships    *)
(* and GeminiClauseExtractor.extract_clauses / generate_clause_summary     *)
(***************************************************************************)

\* sum(len(category_entities) for category_entities in entities.values())
RECURSIVE TotalEntities(_)
TotalEntities(entities) ==
    IF DOMAIN entities = {} THEN 0
    ELSE LET c == CHOOSE x \in DOMAIN entities : TRUE
         IN  BagSize(entities[c])
             + TotalEntities([x \in DOMAIN entities \ {c} |-> entities[x]])

NoEntities == [c \in {} |-> EmptyBag]

\* The possible results of extract_entities; categories_found is kept up to
\* its order.
extract_entities(text, extraction_type, generated) ==
    IF generated.exc
    THEN {[entities |-> NoEntities, extraction_type |-> extraction_type,
           total_entities |-> 0, categories_found |-> {},
           text_length |-> Len(text)]}
    ELSE {[entities |-> r.val, extraction_type |-> extraction_type,
           total_entities |-> TotalEntities(r.val),
           categories_found |-> DOMAIN r.val,
           text_length |-> Len(text)] : r \in _parse_entity_response(generated.val)}

S_legal_relationships == "legal_relationships"

\* The possible results of extract_legal_relationships.
extract_legal_relationships(text, generated) ==
    IF generated.exc
    THEN {[relationships |-> NoEntities, analysis_type |-> S_legal_relationships,
           total_relationships |-> 0]}
    ELSE {[relationships |-> r.val, analysis_type |-> S_legal_relationships,
           total_relationships |-> TotalEntities(r.val)] :
             r \in _parse_entity_response(generated.val)}

\* The dict extract_clauses returns for the outcome of its try block.
ClauseData(text, searched, extracted_clauses) ==
    IF extracted_clauses.exc
    THEN [clauses |-> <<>>, total_clauses_found |-> 0,
          clause_types_searched |-> searched, document_length |-> Len(text)]
    ELSE [clauses |-> extracted_clauses.val,
          total_clauses_found |-> Len(extracted_clauses.val),
          clause_types_searched |-> searched, document_length |-> Len(text)]

\* extract_clauses; clause_types_arg is <<>> for None and <<list>> otherwise.
extract_clauses(text, clause_types_arg, generated) ==
    ClauseData(text,
               IF clause_types_arg = <<>> THEN clause_types ELSE clause_types_arg[1],
               IF generated.exc THEN Raise ELSE _parse_clause_response(generated.val))

\* The number of clauses whose field has the value.
CountField(clauses, field, value) ==
    Cardinality({k \in 1..Len(clauses) : clauses[k][field] = value})

F_Found ==
    <<"F","o","u","n","d"," ">>

F_HighImportance ==
    <<" ","h","i","g","h","-","i","m","p","o","r","t","a","n","c","e"," ","c","l","a","u","s","e","s"," ","r","e","q","u","i","r","i","n","g"," ","a","t","t","e","n","t","i","o","n">>

F_Termination ==
    <<"D","o","c","u","m","e","n","t"," ","c","o","n","t","a","i","n","s"," ","t","e","r","m","i","n","a","t","i","o","n"," ","p","r","o","v","i","s","i","o","n","s">>

F_Payment ==
    <<"P","a","y","m","e","n","t"," ","t","e","r","m","s"," ","a","r","e"," ","s","p","e","c","i","f","i","e","d"," ","i","n"," ","t","h","e"," ","d","o","c","u","m","e","n","t">>

R_Review ==
    <<"R","e","v","i","e","w"," ","a","l","l"," ","h","i","g","h","-","i","m","p","o","r","t","a","n","c","e"," ","c","l","a","u","s","e","s"," ","c","a","r","e","f","u","l","l","y">>

R_Liability ==
    <<"C","o","n","s","i","d","e","r"," ","a","d","d","i","n","g"," ","l","i","a","b","i","l","i","t","y"," ","l","i","m","i","t","a","t","i","o","n"," ","c","l","a","u","s","e","s">>

R_GoverningLaw ==
    <<"E","n","s","u","r","e"," ","g","o","v","e","r","n","i","n","g"," ","l","a","w"," ","a","n","d"," ","j","u","r","i","s","d","i","c","t","i","o","n"," ","a","r","e"," ","s","p","e","c","i","f","i","e","d">>

generate_clause_summary(clauses) ==
    IF clauses = <<>>
    THEN [total_clauses |-> 0, high_importance |-> 0,
          clause_distribution |-> [c \in {} |-> 0],
          key_findings |-> <<>>, recommendations |-> <<>>]
    ELSE LET types == {clauses[k].clause_type : k \in 1..Len(clauses)}
             levels == {S_HIGH, S_MEDIUM, S_LOW}
                           \cup {clauses[k].importance : k \in 1..Len(clauses)}
             clause_distribution ==
                 [c \in types |-> CountField(clauses, "clause_type", c)]
             importance_counts ==
                 [l \in levels |-> CountField(clauses, "importance", l)]
             high == importance_counts[S_HIGH]
             key_findings ==
                 (IF high > 0
                  THEN <<F_Found \o IntToChars(high) \o F_HighImportance>> ELSE <<>>)
                 \o (IF T_TERMINATION \in types THEN <<F_Termination>> ELSE <<>>)
                 \o (IF T_PAYMENT \in types THEN <<F_Payment>> ELSE <<>>)
             recommendations ==
                 (IF high > 0 THEN <<R_Review>> ELSE <<>>)
                 \o (IF T_LIMITATION_LIABILITY \notin types THEN <<R_Liability>> ELSE <<>>)
                 \o (IF T_GOVERNING_LAW \notin types THEN <<R_GoverningLaw>> ELSE <<>>)
         IN  [total_clauses |-> Len(clauses), high_importance |-> high,
              clause_distribution |-> clause_distribution,
              importance_distribution |-> importance_counts,
              key_findings |-> key_findings, recommendations |-> recommendations]

(***************************************************************************)
(* Files and text extraction: _validate_file and _extract_document_text of *)
(* LegalDocumentProcessor and EnhancedLegalDocumentProcessor (the two      *)
(* classes hold the same code for both).                                   *)
(***************************************************************************)

MAX_FILE_SIZE_MB == 20

\* self.config.MAX_FILE_SIZE_MB * 1024 * 1024
max_size == MAX_FILE_SIZE_MB * 1024 * 1024

D1 ==
    <<"C","o","n","f","i","d","e","n","t","i","a","l"," ","i","n","f","o"," ","m","u","s","t",
      " ","n","o","t"," ","b","e"," ","s","h","a","r","e","d","."," ","P","a","y"," ","w","i",
      "t","h","i","n"," ","3","0"," ","d","a","y","s"," ","o","f"," ","i","n","v","o","i","c",
      "e",".">>

D2 ==
    <<"B","u","y","e","r"," ","s","h","a","l","l"," ","p","a","y"," ","t","h","e"," ","f","e",
      "e"," ","n","o","w"," ","a","n","d"," ","s","h","a","l","l"," ","p","a","y"," ","t","h",
      "e"," ","f","e","e"," ","n","o","w"," ","o","r"," ","l","a","t","e","r",".">>

D3 ==
    <<"P","a","y"," ","w","i","t","h","i","n"," ","3","0"," ","d","a","y","s"," ","o","f"," ",
      "i","n","v","o","i","c","e","."," ","C","o","n","f","i","d","e","n","t","i","a","l"," ",
      "i","n","f","o"," ","m","u","s","t"," ","n","o","t"," ","b","e"," ","s","h","a","r","e",
      "d",".">>

P_contract == <<"d","o","c","s","/","c","o","n","t","r","a","c","t",".","t","x","t">>

P_memo == <<"m","e","m","o",".","D","O","C","X">>

P_scan == <<"s","c","a","n",".","p","d","f">>

P_latin == <<"l","a","t","i","n","1",".","t","x","t">>

P_notes == <<"n","o","t","e","s",".","r","t","f">>

P_missing == <<"m","i","s","s","i","n","g",".","t","x","t">>

P_huge == <<"h","u","g","e",".","p","d","f">>

\* The files on disk: whether the path exists, its size in bytes, whether
\* its bytes can be read as what its extension says (UTF-8 text, a PDF or
\* DOCX container), and the text a successful read gives.
FileState(exists, size, readable, content) ==
    [exists |-> exists, size |-> size, readable |-> readable, content |-> content]

Files ==
    (P_contract :> FileState(TRUE, Len(D1), TRUE, D1))
    @@ (P_memo :> FileState(TRUE, max_size, TRUE, <<" ">> \o D2 \o <<"\n">>))
    @@ (P_scan :> FileState(TRUE, 4096, TRUE, <<"\n">>))
    @@ (P_latin :> FileState(TRUE, 64, FALSE, <<>>))
    @@ (P_notes :> FileState(TRUE, 64, TRUE, D3))
    @@ (P_missing :> FileState(FALSE, 0, FALSE, <<>>))
    @@ (P_huge :> FileState(TRUE, max_size + 1, TRUE, D1))

\* os.path.basename(file_path)
Basename(file_path) ==
    Slice(file_path, RFind(file_path, <<"/">>) + 1, Len(file_path))

\* Path(file_path).suffix.lower()
Suffix(file_path) ==
    LET name == Basename(file_path)
        dot == RFind(name, <<".">>)
    IN  IF 1 < dot /\ dot < Len(name) THEN Lower(Slice(name, dot, Len(name))) ELSE <<>>

_validate_file(file_path) ==
    IF ~Files[file_path].exists THEN FALSE
    ELSE IF Files[file_path].size > max_size THEN FALSE
    ELSE TRUE

\* The dict an extractor returns, without its entities, tables and
\* confidence entries.
TextData(text, pages) == [text |-> text, pages |-> pages]

\* DocumentAIExtractor.extract_text_from_pdf and extract_text_from_docx:
\* the stripped text of the file, and the empty result when the file
\* cannot be read; neither raises.
extract_text_from_pdf(file_path) ==
    IF Files[file_path].readable
    THEN TextData(Strip(Files[file_path].content), 1)
    ELSE TextData(<<>>, 0)

extract_text_from_docx(file_path) ==
    IF Files[file_path].readable
    THEN TextData(Strip(Files[file_path].content), 1)
    ELSE TextData(<<>>, 0)

\* GeminiTextExtractor.extract_text_from_file; generated is the outcome of
\* the upload and the generate_content call.
extract_text_from_file(file_path, generated) ==
    IF generated.exc THEN TextData(<<>>, 0) ELSE TextData(generated.val, 1)

E_pdf == <<".", "p", "d", "f">>

E_docx == <<".", "d", "o", "c", "x">>

E_txt == <<".", "t", "x", "t">>

\* Whether _extract_document_text calls the Gemini extractor for the file.
UsesGemini(file_path) ==
    LET file_extension == Suffix(file_path)
    IN  \/ file_extension \notin {E_pdf, E_docx, E_txt}
        \/ file_extension = E_txt /\ ~Files[file_path].readable

_extract_document_text(file_path, generated) ==
    LET file_extension == Suffix(file_path)
    IN  IF file_extension = E_pdf THEN extract_text_from_pdf(file_path)
        ELSE IF file_extension = E_docx THEN extract_text_from_docx(file_path)
        ELSE IF file_extension = E_txt
        THEN IF Files[file_path].readable
             THEN TextData(Files[file_path].content, 1)
             ELSE extract_text_from_file(file_path, generated)
        ELSE extract_text_from_file(file_path, generated)

(***************************************************************************)
(* The state of the program.                                               *)
(***************************************************************************)

VARIABLES
    \* One run of process_document.
    proc,              \* "enhanced" or "basic": the class whose method runs
    file_path,         \* the file_path argument
    analysis_options,  \* <<>> for None, <<dict>> otherwise
    pc,                \* the statement the run has reached
    results,           \* the results dict, <<>> before it exists
    text_data,         \* <<>> while the local is unbound, <<dict>> otherwise
    returned,          \* the call has returned results
    escaped,           \* an exception has left the call
    calls,             \* per stage, the generate_content calls it has made
    failed_calls,      \* the stages whose generate_content call raised
    visited,           \* the stages executed so far, in order
    status_log,        \* the values stored under 'status' so far, in order
    \* process_multiple_documents.
    file_paths,        \* the file_paths argument
    batch_options,     \* its analysis_options argument: <<>> or <<dict>>
    batch_i,           \* the index of file_path in file_paths
    batch_pc,          \* "idle", "loop" (between calls), "call" or "done"
    batch_results,     \* the results dict of the batch
    individual_results,\* the local list of completed results
    batch_log,         \* the result of each process_document call, in call order
    \* One call of a pure operation.
    op,                \* the operation called
    args,              \* its arguments
    reply,             \* its outcome, once done
    done,              \* the call has ended
    \* highlight_clauses_in_text.
    highlighted,       \* the working copy of the text
    sorted_clauses,    \* the clauses, longest first
    hl_i,              \* the index of the next clause of the loop
    \* The session of the application (st.session_state).
    analysis_results,  \* <<>> for None, <<result>> otherwise
    session_document_text, \* st.session_state.document_text
    qa_history         \* the list of answers given so far

vars ==
    <<proc, file_path, analysis_options, pc, results, text_data, returned, escaped,
      calls, failed_calls, visited, status_log,
      file_paths, batch_options, batch_i, batch_pc, batch_results, individual_results,
      batch_log, op, args, reply, done, highlighted, sorted_clauses, hl_i,
      analysis_results, session_document_text, qa_history>>

run_vars ==
    <<proc, file_path, analysis_options, pc, results, text_data, returned, escaped,
      calls, failed_calls, visited, status_log>>

batch_vars ==
    <<file_paths, batch_options, batch_i, batch_pc, batch_results, individual_results,
      batch_log>>

call_vars == <<op, args, reply, done>>

highlight_vars == <<highlighted, sorted_clauses, hl_i>>

session_vars == <<analysis_results, session_document_text, qa_history>>

(***************************************************************************)
(* The responses of the generative model.                                  *)
(***************************************************************************)

R_summary ==
    <<"1","."," ","T","h","e"," ","k","e","y"," ","p","o","i","n","t"," ","i","s"," ","p","a",
      "y","m","e","n","t"," ","w","i","t","h","i","n"," ","3","0"," ","d","a","y","s",".">>

R_entities ==
    <<"{","\"","O","R","G","A","N","I","Z","A","T","I","O","N","S","\"",":"," ","[","\"","B",
      "u","y","e","r","\"",","," ","\""," ","B","u","y","e","r"," ","\"","]",","," ","\"","D",
      "A","T","E","S","\"",":"," ","[","\"","3","0"," ","d","a","y","s","\"","]","}">>

R_clauses ==
    <<"[","{","\"","c","l","a","u","s","e","_","t","y","p","e","\"",":"," ","\"","C","O","N",
      "F","I","D","E","N","T","I","A","L","I","T","Y","\"",","," ","\"","c","l","a","u","s","e",
      "_","t","e","x","t","\"",":"," ","\"","C","o","n","f","i","d","e","n","t","i","a","l"," ",
      "i","n","f","o"," ","m","u","s","t"," ","n","o","t"," ","b","e"," ","s","h","a","r","e",
      "d",".","\"",","," ","\"","c","o","n","t","e","x","t","\"",":"," ","\"","R","e","s","t",
      "a","t","e","s",":"," ","P","a","y"," ","w","i","t","h","i","n"," ","3","0"," ","d","a",
      "y","s"," ","o","f"," ","i","n","v","o","i","c","e",".","\"",","," ","\"","i","m","p","o",
      "r","t","a","n","c","e","\"",":"," ","\"","H","I","G","H","\"","}",","," ","{","\"","c",
      "l","a","u","s","e","_","t","y","p","e","\"",":"," ","\"","P","A","Y","M","E","N","T",
      "\"",","," ","\"","c","l","a","u","s","e","_","t","e","x","t","\"",":"," ","\"","P","a",
      "y"," ","w","i","t","h","i","n"," ","3","0"," ","d","a","y","s"," ","o","f"," ","i","n",
      "v","o","i","c","e",".","\"",","," ","\"","c","o","n","t","e","x","t","\"",":"," ","\"",
      "p","a","y","m","e","n","t"," ","t","e","r","m","\"","}","]">>

R_no_clauses ==
    <<"N","o"," ","c","l","a","u","s","e","s"," ","f","o","u","n","d",".">>

R_questions ==
    <<"1","."," ","W","h","a","t"," ","i","s"," ","t","h","e"," ","p","a","y","m","e","n","t",
      " ","t","e","r","m"," ","o","f"," ","t","h","i","s"," ","a","g","r","e","e","m","e","n",
      "t","?">>

R_bullets ==
    <<"-"," ","P","a","y"," ","w","i","t","h","i","n"," ","3","0"," ","d","a","y","s","\n","n",
      "o","t"," ","a"," ","b","u","l","l","e","t">>

R_risks ==
    <<"H","I","G","H"," ","R","I","S","K"," ","A","R","E","A","S",":","\n","-"," ","L","a","t",
      "e"," ","p","a","y","m","e","n","t">>

R_relationships ==
    <<"{","\"","F","I","N","A","N","C","I","A","L","_","R","E","L","A","T","I","O","N","S","H",
      "I","P","S","\"",":"," ","[","\"","B","u","y","e","r"," ","p","a","y","s"," ","S","e","l",
      "l","e","r","\"","]","}">>

R_extracted ==
    <<"P","a","y"," ","o","n"," ","t","i","m","e",".">>

\* The outcomes of a stage's generate_content call: a response text, or an
\* exception (quota, network, blocked response).
Generated(stage) ==
    {Raise} \cup
    {Return(t) : t \in
        CASE stage = "extract"       -> {R_extracted, <<>>}
          [] stage = "summary"       -> {R_summary}
          [] stage = "entities"      -> {R_entities}
          [] stage = "clauses"       -> {R_clauses, R_no_clauses}
          [] stage = "qa"            -> {R_questions}
          [] stage = "bullets"       -> {R_bullets}
          [] stage = "risks"         -> {R_risks}
          [] stage = "relationships" -> {R_relationships}}

(***************************************************************************)
(* process_document of EnhancedLegalDocumentProcessor ("enhanced") and of  *)
(* LegalDocumentProcessor ("basic"), one action per step of its body.      *)
(***************************************************************************)

\* An analysis_options dict: the value .get gives for each flag, that is
\* the stored value of a key the dict holds and the default of the call
\* for a key it lacks.
Options(et, gs, ee, ec, qa, ar, bp, er, cd) ==
    [extract_text |-> et, generate_summary |-> gs, extract_entities |-> ee,
     extract_clauses |-> ec, generate_qa_suggestions |-> qa,
     analyze_risks |-> ar, generate_bullet_points |-> bp,
     extract_relationships |-> er, compare_documents |-> cd,
     summary_type |-> "comprehensive",
     entity_extraction_type |-> "comprehensive"]

\* The dict that replaces analysis_options = None.
DefaultOptions(p) ==
    IF p = "enhanced"
    THEN Options(TRUE, TRUE, TRUE, TRUE, TRUE, TRUE, TRUE, FALSE, FALSE)
    ELSE Options(TRUE, TRUE, TRUE, FALSE, FALSE, TRUE, TRUE, FALSE, FALSE)

\* The statement that follows a stage.
NextStage_SkipRisks(p, stage) ==
    CASE stage = "extract"  -> "summary"
      [] stage = "summary"  -> "entities"
      [] stage = "entities" -> IF p = "enhanced" THEN "clauses" ELSE "bullets"
      [] stage = "clauses"  -> "qa"
      [] stage = "qa"       -> "bullets"
      [] stage = "bullets"  -> IF p = "enhanced" THEN "complete" ELSE "relationships"
      [] stage = "risks"    -> IF p = "enhanced" THEN "complete" ELSE "relationships"
      [] stage = "relationships" -> "complete"

NextStage_Retry(p, stage) ==
    CASE stage = "extract"  -> "summary"
      [] stage = "summary"  -> "entities"
      [] stage = "entities" -> IF p = "enhanced" THEN "clauses" ELSE "bullets"
      [] stage = "clauses"  -> "qa"
      [] stage = "qa"       -> "bullets"
      [] stage = "bullets"  -> "risks"
      [] stage = "risks"    -> "summary"
      [] stage = "relationships" -> "complete"

NextStage_RisksBeforeBullets(p, stage) ==
    CASE stage = "extract"  -> "summary"
      [] stage = "summary"  -> "entities"
      [] stage = "entities" -> IF p = "enhanced" THEN "clauses" ELSE "risks"
      [] stage = "clauses"  -> "qa"
      [] stage = "qa"       -> "risks"
      [] stage = "risks"    -> "bullets"
      [] stage = "bullets"  -> IF p = "enhanced" THEN "complete" ELSE "relationships"
      [] stage = "relationships" -> "complete"

NextStage(p, stage) ==
    CASE stage = "extract"  -> "summary"
      [] stage = "summary"  -> "entities"
      [] stage = "entities" -> IF p = "enhanced" THEN "clauses" ELSE "bullets"
      [] stage = "clauses"  -> "qa"
      [] stage = "qa"       -> "bullets"
      [] stage = "bullets"  -> "risks"
      [] stage = "risks"    -> IF p = "enhanced" THEN "complete" ELSE "relationships"
      [] stage = "relationships" -> "complete"

NoTextError ==
    <<"N","o"," ","t","e","x","t"," ","c","o","u","l","d"," ","b","e"," ","e","x","t","r","a",
      "c","t","e","d"," ","f","r","o","m"," ","d","o","c","u","m","e","n","t">>

InvalidFilePrefix ==
    <<"I","n","v","a","l","i","d"," ","f","i","l","e",":"," ">>

\* str(e) of the UnboundLocalError raised by reading text_data, in the
\* wording of the interpreter that runs the program.
UnboundMessages ==
    {<<"l","o","c","a","l"," ","v","a","r","i","a","b","l","e"," ","'","t","e","x","t","_","d","a","t","a","'"," ","r","e","f","e","r","e","n","c","e","d"," ","b","e","f","o","r","e"," ","a","s","s","i","g","n","m","e","n","t">>,
     <<"c","a","n","n","o","t"," ","a","c","c","e","s","s"," ","l","o","c","a","l"," ","v","a","r","i","a","b","l","e"," ","'","t","e","x","t","_","d","a","t","a","'"," ","w","h","e","r","e"," ","i","t"," ","i","s"," ","n","o","t"," ","a","s","s","o","c","i","a","t","e","d"," ","w","i","t","h"," ","a"," ","v","a","l","u","e">>}

\* The except block of process_document: what the call does with an
\* exception raised in its try block.
ProcessingFailed_Reraise(path, error, options) == Raise

ProcessingFailed(path, error, options) ==
    Return(("file_path" :> path) @@ ("status" :> "failed") @@ ("error" :> error)
           @@ ("analysis_options" :> options))

\* not text_data.get('text')
IsEmptyText_Never(data) == FALSE

IsEmptyText(data) == data.text = <<>>

QAReadyLimit == 10000

Fail(error) ==
    LET r == ProcessingFailed(file_path, error, analysis_options[1])
    IN  /\ results' = IF r.exc THEN results ELSE r.val
        /\ returned' = ~r.exc
        /\ escaped' = r.exc
        /\ status_log' = IF r.exc THEN status_log ELSE Append(status_log, "failed")
        /\ pc' = "exit"

\* if analysis_options is None: analysis_options = {...}
Enter ==
    /\ pc = "enter"
    /\ analysis_options' = IF analysis_options = <<>>
                           THEN <<DefaultOptions(proc)>> ELSE analysis_options
    /\ pc' = "validate"
    /\ UNCHANGED <<proc, file_path, results, text_data, returned, escaped,
                   calls, failed_calls, visited, status_log>>
    /\ UNCHANGED <<batch_vars, call_vars, highlight_vars, session_vars>>

\* The validation of the file and the creation of results.
Validate ==
    /\ pc = "validate"
    /\ IF ~_validate_file(file_path)
       THEN Fail(InvalidFilePrefix \o file_path)
       ELSE /\ results' = ("file_path" :> file_path)
                          @@ ("file_name" :> Basename(file_path))
                          @@ ("analysis_options" :> analysis_options[1])
                          @@ ("status" :> "processing")
            /\ status_log' = Append(status_log, "processing")
            /\ pc' = "extract"
            /\ UNCHANGED <<returned, escaped>>
    /\ UNCHANGED <<proc, file_path, analysis_options, text_data,
                   calls, failed_calls, visited>>
    /\ UNCHANGED <<batch_vars, call_vars, highlight_vars, session_vars>>

\* As ExtractText, extracting the text whatever the extract_text flag says.
ExtractText_IgnoresFlag ==
    /\ pc = "extract"
    /\ \E generated \in IF UsesGemini(file_path) THEN Generated("extract") ELSE {Raise} :
          LET data == _extract_document_text(file_path, generated)
              made == IF UsesGemini(file_path) THEN 1 ELSE 0
          IN  /\ text_data' = <<data>>
              /\ calls' = [calls EXCEPT !["extract"] = @ + made]
              /\ failed_calls' = IF made = 1 /\ generated.exc
                                 THEN failed_calls \cup {"extract"} ELSE failed_calls
              /\ visited' = Append(visited, "extract")
              /\ IF IsEmptyText(data)
                 THEN /\ results' = ("status" :> "failed") @@ ("error" :> NoTextError)
                                    @@ ("text_extraction" :> data) @@ results
                      /\ status_log' = Append(status_log, "failed")
                      /\ returned' = TRUE
                      /\ pc' = "exit"
                      /\ UNCHANGED escaped
                 ELSE /\ results' = ("text_extraction" :> data) @@ results
                      /\ pc' = NextStage(proc, "extract")
                      /\ UNCHANGED <<returned, escaped, status_log>>
    /\ UNCHANGED <<proc, file_path, analysis_options>>
    /\ UNCHANGED <<batch_vars, call_vars, highlight_vars, session_vars>>

\* Step 1 and document_text = text_data['text'].
ExtractText ==
    /\ pc = "extract"
    /\ IF analysis_options[1].extract_text
       THEN \E generated \in IF UsesGemini(file_path) THEN Generated("extract") ELSE {Raise} :
              LET data == _extract_document_text(file_path, generated)
                  made == IF UsesGemini(file_path) THEN 1 ELSE 0
              IN  /\ text_data' = <<data>>
                  /\ calls' = [calls EXCEPT !["extract"] = @ + made]
                  /\ failed_calls' = IF made = 1 /\ generated.exc
                                     THEN failed_calls \cup {"extract"} ELSE failed_calls
                  /\ visited' = Append(visited, "extract")
                  /\ IF IsEmptyText(data)
                     THEN /\ results' = ("status" :> "failed") @@ ("error" :> NoTextError)
                                        @@ ("text_extraction" :> data) @@ results
                          /\ status_log' = Append(status_log, "failed")
                          /\ returned' = TRUE
                          /\ pc' = "exit"
                          /\ UNCHANGED escaped
                     ELSE /\ results' = ("text_extraction" :> data) @@ results
                          /\ pc' = NextStage(proc, "extract")
                          /\ UNCHANGED <<returned, escaped, status_log>>
       ELSE /\ \E error \in UnboundMessages : Fail(error)
            /\ UNCHANGED <<text_data, calls, failed_calls, visited>>
    /\ UNCHANGED <<proc, file_path, analysis_options>>
    /\ UNCHANGED <<batch_vars, call_vars, highlight_vars, session_vars>>

document_text == text_data[1].text

\* A stage after the extraction: when its flag is set, one call of the
\* stage's method, whose possible results Fields gives for each outcome of
\* its generate_content call, each as the entries it adds to results.
RunStage(stage, flag, Fields(_)) ==
    /\ IF analysis_options[1][flag]
       THEN \E generated \in Generated(stage) : \E fields \in Fields(generated) :
              /\ results' = fields @@ results
              /\ calls' = [calls EXCEPT ![stage] = @ + 1]
              /\ failed_calls' = IF generated.exc
                                 THEN failed_calls \cup {stage} ELSE failed_calls
              /\ visited' = Append(visited, stage)
       ELSE UNCHANGED <<results, calls, failed_calls, visited>>
    /\ pc' = NextStage(proc, stage)
    /\ UNCHANGED <<proc, file_path, analysis_options, text_data, returned, escaped,
                   status_log>>
    /\ UNCHANGED <<batch_vars, call_vars, highlight_vars, session_vars>>

GenerateSummary ==
    /\ pc = "summary"
    /\ LET Fields(generated) ==
               {"summary" :> summarize_document(document_text,
                                 analysis_options[1].summary_type, generated)}
       IN  RunStage("summary", "generate_summary", Fields)

ExtractEntities ==
    /\ pc = "entities"
    /\ LET Fields(generated) ==
               {"entities" :> entity_data :
                   entity_data \in extract_entities(document_text,
                                       analysis_options[1].entity_extraction_type, generated)}
       IN  RunStage("entities", "extract_entities", Fields)

\* As ClauseFields, without the test of clause_data.get('clauses').
ClauseFields_Unconditional(text, clause_data) ==
    ("clauses" :> clause_data)
    @@ ("highlighted_text" :> highlight_clauses_in_text(text, clause_data.clauses))
    @@ ("clause_summary" :> generate_clause_summary(clause_data.clauses))

\* The entries Step 4 adds to results for the clause_data it got.
ClauseFields(text, clause_data) ==
    IF clause_data.clauses # <<>>
    THEN ("clauses" :> clause_data)
         @@ ("highlighted_text" :> highlight_clauses_in_text(text, clause_data.clauses))
         @@ ("clause_summary" :> generate_clause_summary(clause_data.clauses))
    ELSE "clauses" :> clause_data

\* Step 4 with the highlighted text and the clause summary.
ExtractClauses ==
    /\ pc = "clauses"
    /\ LET Fields(generated) ==
               {ClauseFields(document_text, extract_clauses(document_text, <<>>, generated))}
       IN  RunStage("clauses", "extract_clauses", Fields)

GenerateQASuggestions ==
    /\ pc = "qa"
    /\ LET Fields(generated) ==
               {("suggested_questions" :> get_suggested_questions(document_text, generated))
                @@ ("qa_ready_text" :> Take(document_text, QAReadyLimit))}
       IN  RunStage("qa", "generate_qa_suggestions", Fields)

GenerateBulletPoints ==
    /\ pc = "bullets"
    /\ LET Fields(generated) ==
               {"bullet_points" :> generate_bullet_points(document_text, generated)}
       IN  RunStage("bullets", "generate_bullet_points", Fields)

AnalyzeRisks ==
    /\ pc = "risks"
    /\ LET Fields(generated) ==
               {"risk_analysis" :> analyze_legal_risks(document_text, generated)}
       IN  RunStage("risks", "analyze_risks", Fields)

ExtractRelationships ==
    /\ pc = "relationships"
    /\ LET Fields(generated) ==
               {"relationships" :> relationships :
                   relationships \in extract_legal_relationships(document_text, generated)}
       IN  RunStage("relationships", "extract_relationships", Fields)

\* results['status'] = 'completed'; return results
Complete ==
    /\ pc = "complete"
    /\ results' = [results EXCEPT !["status"] = "completed"]
    /\ status_log' = Append(status_log, "completed")
    /\ returned' = TRUE
    /\ pc' = "exit"
    /\ UNCHANGED <<proc, file_path, analysis_options, text_data, escaped,
                   calls, failed_calls, visited>>
    /\ UNCHANGED <<batch_vars, call_vars, highlight_vars, session_vars>>

Stages ==
    {"extract", "summary", "entities", "clauses", "qa", "bullets", "risks",
     "relationships"}

\* The state in which process_document(path, options) is entered.
RunInit(p, path, options) ==
    /\ proc = p
    /\ file_path = path
    /\ analysis_options = options
    /\ pc = "enter"
    /\ results = <<>>
    /\ text_data = <<>>
    /\ returned = FALSE
    /\ escaped = FALSE
    /\ calls = [s \in Stages |-> 0]
    /\ failed_calls = {}
    /\ visited = <<>>
    /\ status_log = <<>>

\* The analysis_options a caller passes to the class: None, or a dict with
\* any combination of the flags the class reads.
OptionChoices(p) ==
    {<<>>} \cup
    {<<Options(et, gs, ee, ec, qa, ar, bp, er, FALSE)>> :
        et \in BOOLEAN, gs \in BOOLEAN, ee \in BOOLEAN,
        ec \in IF p = "enhanced" THEN BOOLEAN ELSE {FALSE},
        qa \in IF p = "enhanced" THEN BOOLEAN ELSE {FALSE},
        ar \in BOOLEAN, bp \in BOOLEAN,
        er \in IF p = "basic" THEN BOOLEAN ELSE {FALSE}}

NoBatch ==
    /\ file_paths = <<>>
    /\ batch_options = <<>>
    /\ batch_i = 0
    /\ batch_pc = "idle"
    /\ batch_results = <<>>
    /\ individual_results = <<>>
    /\ batch_log = <<>>

NoCall ==
    /\ op = "none"
    /\ args = <<>>
    /\ reply = <<>>
    /\ done = FALSE

\* initialize_session_state
NoSession ==
    /\ analysis_results = <<>>
    /\ session_document_text = <<>>
    /\ qa_history = <<>>

NoHighlight ==
    /\ highlighted = WorkingCopy(<<>>)
    /\ sorted_clauses = <<>>
    /\ hl_i = 0

\* One call of process_document, of either class, for any file and options.
InitPipeline ==
    /\ \E p \in {"enhanced", "basic"} : \E path \in DOMAIN Files :
          \E options \in OptionChoices(p) : RunInit(p, path, options)
    /\ NoBatch
    /\ NoCall
    /\ NoHighlight
    /\ NoSession

NextPipeline ==
    \/ Enter
    \/ Validate
    \/ ExtractText
    \/ GenerateSummary
    \/ ExtractEntities
    \/ ExtractClauses
    \/ GenerateQASuggestions
    \/ GenerateBulletPoints
    \/ AnalyzeRisks
    \/ ExtractRelationships
    \/ Complete

SpecPipeline == InitPipeline /\ [][NextPipeline]_vars

(***************************************************************************)
(* LegalDocumentProcessor.process_multiple_documents                       *)
(***************************************************************************)

ErrorComparing ==
    <<"E","r","r","o","r"," ","c","o","m","p","a","r","i","n","g"," ","d","o","c","u","m","e",
      "n","t","s">>

\* GeminiSummarizer.compare_documents, without its analysis_date entry.
compare_documents(text1, text2, doc1_name, doc2_name, generated) ==
    [comparison_text |-> IF generated.exc THEN ErrorComparing ELSE generated.val,
     doc1_name |-> doc1_name, doc2_name |-> doc2_name]

\* _compare_multiple_documents for a list of at least two completed results.
_compare_multiple_documents(completed, generated) ==
    compare_documents(completed[1]["text_extraction"].text,
                      completed[2]["text_extraction"].text,
                      completed[1]["file_name"], completed[2]["file_name"], generated)

R_comparison ==
    <<"K","E","Y"," ","D","I","F","F","E","R","E","N","C","E","S",":","\n","-"," ","n","o","n",
      "e">>

MinToCompare == 2

\* No call of process_document is in progress.
RunIdle ==
    /\ proc = "basic"
    /\ file_path = <<>>
    /\ analysis_options = <<>>
    /\ pc = "idle"
    /\ results = <<>>
    /\ text_data = <<>>
    /\ returned = FALSE
    /\ escaped = FALSE
    /\ calls = [s \in Stages |-> 0]
    /\ failed_calls = {}
    /\ visited = <<>>
    /\ status_log = <<>>

\* results = {...}; individual_results = []
BatchEnter ==
    /\ batch_pc = "enter"
    /\ batch_results' = [total_documents |-> Len(file_paths),
                         processed_successfully |-> 0,
                         failed |-> 0,
                         individual_results |-> <<>>,
                         summary_comparison |-> <<>>]
    /\ individual_results' = <<>>
    /\ batch_i' = 1
    /\ batch_pc' = "loop"
    /\ UNCHANGED <<file_paths, batch_options, batch_log>>
    /\ UNCHANGED <<run_vars, call_vars, highlight_vars, session_vars>>

\* for file_path in file_paths: the call of self.process_document.
BatchCall ==
    /\ batch_pc = "loop"
    /\ batch_i <= Len(file_paths)
    /\ proc' = "basic"
    /\ file_path' = file_paths[batch_i]
    /\ analysis_options' = batch_options
    /\ pc' = "enter"
    /\ results' = <<>>
    /\ text_data' = <<>>
    /\ returned' = FALSE
    /\ escaped' = FALSE
    /\ calls' = [s \in Stages |-> 0]
    /\ failed_calls' = {}
    /\ visited' = <<>>
    /\ status_log' = <<>>
    /\ batch_pc' = "call"
    /\ UNCHANGED <<file_paths, batch_options, batch_i, batch_results, individual_results,
                   batch_log>>
    /\ UNCHANGED <<call_vars, highlight_vars, session_vars>>

\* As BatchRecord, but a result that is not completed is not counted.
BatchRecord_FailedUncounted ==
    /\ batch_pc = "call"
    /\ pc = "exit"
    /\ IF escaped
       THEN /\ batch_pc' = "raised"
            /\ UNCHANGED <<batch_results, individual_results, batch_i, batch_log>>
       ELSE /\ batch_results' =
                  [batch_results EXCEPT
                     !.individual_results = (file_path :> results) @@ @,
                     !.processed_successfully =
                         IF results["status"] = "completed" THEN @ + 1 ELSE @]
            /\ individual_results' = IF results["status"] = "completed"
                                     THEN Append(individual_results, results)
                                     ELSE individual_results
            /\ batch_log' = Append(batch_log, results)
            /\ batch_i' = batch_i + 1
            /\ batch_pc' = "loop"
    /\ pc' = "idle"
    /\ UNCHANGED <<file_paths, batch_options>>
    /\ UNCHANGED <<proc, file_path, analysis_options, results, text_data, returned,
                   escaped, calls, failed_calls, visited, status_log>>
    /\ UNCHANGED <<call_vars, highlight_vars, session_vars>>

\* The rest of the loop body, once the call has returned; an exception that
\* left the call leaves process_multiple_documents as well.
BatchRecord ==
    /\ batch_pc = "call"
    /\ pc = "exit"
    /\ IF escaped
       THEN /\ batch_pc' = "raised"
            /\ UNCHANGED <<batch_results, individual_results, batch_i, batch_log>>
       ELSE /\ batch_results' =
                  [batch_results EXCEPT
                     !.individual_results = (file_path :> results) @@ @,
                     !.processed_successfully =
                         IF results["status"] = "completed" THEN @ + 1 ELSE @,
                     !.failed = IF results["status"] = "completed" THEN @ ELSE @ + 1]
            /\ individual_results' = IF results["status"] = "completed"
                                     THEN Append(individual_results, results)
                                     ELSE individual_results
            /\ batch_log' = Append(batch_log, results)
            /\ batch_i' = batch_i + 1
            /\ batch_pc' = "loop"
    /\ pc' = "idle"
    /\ UNCHANGED <<file_paths, batch_options>>
    /\ UNCHANGED <<proc, file_path, analysis_options, results, text_data, returned,
                   escaped, calls, failed_calls, visited, status_log>>
    /\ UNCHANGED <<call_vars, highlight_vars, session_vars>>

\* The comparison after the loop, and return results.
BatchFinish ==
    /\ batch_pc = "loop"
    /\ batch_i > Len(file_paths)
    /\ IF /\ Len(individual_results) >= MinToCompare
          /\ batch_options # <<>>
          /\ batch_options[1].compare_documents
       THEN \E generated \in {Return(R_comparison), Raise} :
               batch_results' =
                   [batch_results EXCEPT !.summary_comparison =
                       <<_compare_multiple_documents(individual_results, generated)>>]
       ELSE UNCHANGED batch_results
    /\ batch_pc' = "done"
    /\ UNCHANGED <<file_paths, batch_options, batch_i, individual_results, batch_log>>
    /\ UNCHANGED <<run_vars, call_vars, highlight_vars, session_vars>>

MaxDocs == 3

\* The paths a batch is made of: a readable contract, a scan without text
\* and a path that does not exist.
BatchPaths == {P_contract, P_scan, P_missing}

\* The analysis_options of a batch: with or without the summary stage, with
\* or without the comparison.
BatchOptionChoices ==
    {<<Options(TRUE, gs, FALSE, FALSE, FALSE, FALSE, FALSE, FALSE, cd)>> :
        gs \in BOOLEAN, cd \in BOOLEAN}

\* One call of process_multiple_documents for any list of up to MaxDocs
\* paths, repeated paths included.
InitBatch ==
    /\ file_paths \in UNION {[1..n -> BatchPaths] : n \in 0..MaxDocs}
    /\ batch_options \in BatchOptionChoices
    /\ batch_i = 0
    /\ batch_pc = "enter"
    /\ batch_results = <<>>
    /\ individual_results = <<>>
    /\ batch_log = <<>>
    /\ RunIdle
    /\ NoCall
    /\ NoHighlight
    /\ NoSession

NextBatch ==
    \/ BatchEnter
    \/ BatchCall
    \/ Enter
    \/ Validate
    \/ ExtractText
    \/ GenerateSummary
    \/ ExtractEntities
    \/ GenerateBulletPoints
    \/ AnalyzeRisks
    \/ ExtractRelationships
    \/ Complete
    \/ BatchRecord
    \/ BatchFinish

SpecBatch == InitBatch /\ [][NextBatch]_vars


(***************************************************************************)
(* Calls of the question-answering operations: _estimate_confidence,       *)
(* answer_question and search_document.                                    *)
(***************************************************************************)

A_Yes ==
    <<"Y","e","s","."," ">>

A_Section ==
    <<"S","e","e"," ","S","e","c","t","i","o","n"," ","2">>

\* An answer text: "Yes. ", the uncertain phrases numbered in S (every
\* second one capitalised), a quotation mark and a section reference as
\* marks says.
AnswerText(S, marks) ==
    A_Yes
    \o Concat([k \in 1..Len(uncertain_phrases) |->
                 IF k \notin S THEN <<>>
                 ELSE IF k % 2 = 0 THEN uncertain_phrases[k] \o <<" ">>
                 ELSE <<UpperChar(uncertain_phrases[k][1])>>
                          \o Tail(uncertain_phrases[k]) \o <<" ">>])
    \o (IF "quote" \in marks THEN <<"\"">> ELSE <<>>)
    \o (IF "section" \in marks THEN A_Section ELSE <<>>)

\* The answer texts of the model: the empty text, and every combination of
\* uncertain phrases and marks.
AnswerTexts ==
    {<<>>} \cup {AnswerText(S, marks) : S \in SUBSET (1..Len(uncertain_phrases)),
                                        marks \in SUBSET {"quote", "section"}}

QuotaError ==
    <<"4","2","9"," ","q","u","o","t","a"," ","e","x","c","e","e","d","e","d">>

Q_pay ==
    <<"W","h","e","n"," ","m","u","s","t"," ","t","h","e"," ","i","n","v","o","i","c","e"," ",
      "b","e"," ","p","a","i","d","?">>

Q_share ==
    <<"C","o","n","f","i","d","e","n","t","i","a","l"," ","i","n","f","o"," ","m","u","s","t",
      " ","n","o","t"," ","b","e"," ","s","h","a","r","e","d","?">>

SQ_pay ==
    <<"p","a","y">>

R_hits ==
    <<"*","*","R","e","s","u","l","t"," ","1",":","*","*","\n","T","e","x","t",":"," ","P","a",
      "y"," ","w","i","t","h","i","n"," ","3","0"," ","d","a","y","s"," ","o","f"," ","i","n",
      "v","o","i","c","e",".","\n","R","e","l","e","v","a","n","c","e",":"," ","p","a","y","m",
      "e","n","t"," ","t","e","r","m","\n","C","o","n","t","e","x","t",":"," ","c","l","a","u",
      "s","e"," ","2","\n","*","*","R","e","s","u","l","t"," ","2",":","*","*","\n","T","e","x",
      "t",":"," ","s","h","o","r","t">>

R_no_hits ==
    <<"N","o"," ","r","e","l","e","v","a","n","t"," ","i","n","f","o","r","m","a","t","i","o",
      "n"," ","f","o","u","n","d"," ","f","o","r"," ","t","h","i","s"," ","s","e","a","r","c",
      "h"," ","q","u","e","r","y",".">>

C_payment ==
    Clause(T_PAYMENT, <<"P","a","y"," ","w","i","t","h","i","n"," ","3","0"," ","d","a","y","s",
                        " ","o","f"," ","i","n","v","o","i","c","e",".">>,
           <<"p","a","y","m","e","n","t"," ","t","e","r","m">>, S_HIGH, S_Unknown)

\* self._estimate_confidence(answer_text)
EstimateConfidence ==
    /\ op = "_estimate_confidence"
    /\ ~done
    /\ reply' = <<Return(_estimate_confidence(args.answer_text))>>
    /\ done' = TRUE
    /\ UNCHANGED <<op, args>>
    /\ UNCHANGED <<run_vars, batch_vars, highlight_vars, session_vars>>

\* processor.answer_question(document_text, question, context_clauses)
AnswerQuestion ==
    /\ op = "answer_question"
    /\ ~done
    /\ reply' = <<answer_question(args.document_text, args.question,
                                  args.context_clauses, args.generated)>>
    /\ done' = TRUE
    /\ UNCHANGED <<op, args>>
    /\ UNCHANGED <<run_vars, batch_vars, highlight_vars, session_vars>>

\* processor.search_document(document_text, search_query)
SearchDocument ==
    /\ op = "search_document"
    /\ ~done
    /\ reply' = <<search_document(args.document_text, args.search_query,
                                  args.generated)>>
    /\ done' = TRUE
    /\ UNCHANGED <<op, args>>
    /\ UNCHANGED <<run_vars, batch_vars, highlight_vars, session_vars>>

\* A call of answer_question: a question or None, with or without context
\* clauses; generated is the outcome of the call's generate_content.
AnswerCalls ==
    [document_text : {D1},
     question : {<<>>, <<Q_pay>>, <<Q_share>>},
     context_clauses : {<<>>, <<C_payment>>,
                        <<C_payment, C_payment, C_payment, C_payment>>},
     generated : {Raised(QuotaError)} \cup {Return(t) : t \in AnswerTexts}]

\* The responses of the search model that the model checks section by
\* section: an emission lists, for each '**Result' section in turn, whether
\* its Text is long enough to qualify as a hit.
MaxEmitted == 6

Emissions ==
    UNION {[1..n -> {"long", "short"}] : n \in 0..MaxEmitted}

\* The Text of the k-th emitted section.
EmittedText(k, kind) ==
    IF kind = "long"
    THEN <<"h","i","t"," ">> \o IntToChars(k) \o <<" ","o","f"," ","t","h","e"," ","t","e","x","t">>
    ELSE <<"h","i","t"," ">> \o IntToChars(k)

SearchResponse(emission) ==
    Concat([k \in 1..Len(emission) |->
               ResultMarker \o <<" ">> \o IntToChars(k) \o <<":","*","*","\n">>
               \o L_Text \o <<" ">> \o EmittedText(k, emission[k]) \o <<"\n">>
               \o L_Relevance \o <<" ">> \o SQ_pay \o <<"\n","\n">>])

\* A call of search_document: a document text or None.
SearchCalls ==
    [document_text : {<<>>, <<D1>>},
     search_query : {SQ_pay},
     generated : {Raised(QuotaError), Return(R_hits), Return(R_no_hits), Return(<<>>)}
                    \cup {Return(SearchResponse(e)) : e \in Emissions}]

InitAnswer ==
    /\ op = "answer_question"
    /\ args \in AnswerCalls
    /\ reply = <<>>
    /\ done = FALSE

InitSearch ==
    /\ op = "search_document"
    /\ args \in SearchCalls
    /\ reply = <<>>
    /\ done = FALSE

\* Answer texts that say everything twice.
RepeatedTexts ==
    {AnswerText(S, marks) \o AnswerText(S, marks) :
        S \in SUBSET (1..Len(uncertain_phrases)), marks \in SUBSET {"quote", "section"}}

InitEstimate ==
    /\ op = "_estimate_confidence"
    /\ args \in [answer_text : AnswerTexts \cup RepeatedTexts]
    /\ reply = <<>>
    /\ done = FALSE

\* The responses of the model to the request for suggested questions: a
\* numbered list of up to MaxQuestionLines lines, of which the first
\* `category` lines ask a predefined category question and, when
\* `statement` is set, the last line is no question.
MaxQuestionLines == 12

QuestionLine(k, n, category, statement) ==
    IntToChars(k) \o <<".", " ">> \o
        (IF k <= category THEN question_categories[k][1]
         ELSE IF statement /\ k = n
         THEN <<"N","o","t"," ","a"," ","q","u","e","s","t","i","o","n"," ","a","t"," ","a","l","l",".">>
         ELSE <<"I","s"," ","q","u","e","s","t","i","o","n"," ","n","u","m","b","e","r"," ">> \o IntToChars(k)
                  \o <<" ","a"," ","g","o","o","d"," ","q","u","e","s","t","i","o","n","?">>)

SuggestedResponse(n, category, statement) ==
    Concat([k \in 1..n |-> (IF k = 1 THEN <<>> ELSE <<"\n">>)
                               \o QuestionLine(k, n, category, statement)])

SuggestCalls ==
    [document_text : {D1},
     generated : {Raised(QuotaError)} \cup
                 {Return(SuggestedResponse(n, category, statement)) :
                     n \in 0..MaxQuestionLines, category \in 0..2, statement \in BOOLEAN}]

\* self.qa_system.get_suggested_questions(document_text)
SuggestQuestions ==
    /\ op = "get_suggested_questions"
    /\ ~done
    /\ reply' = <<Return(get_suggested_questions(args.document_text, args.generated))>>
    /\ done' = TRUE
    /\ UNCHANGED <<op, args>>
    /\ UNCHANGED <<run_vars, batch_vars, highlight_vars, session_vars>>

InitSuggest ==
    /\ op = "get_suggested_questions"
    /\ args \in SuggestCalls
    /\ reply = <<>>
    /\ done = FALSE

\* One call of an operation of the question-answering system.
InitQA ==
    /\ InitEstimate \/ InitAnswer \/ InitSearch \/ InitSuggest
    /\ RunIdle
    /\ NoBatch
    /\ NoHighlight
    /\ NoSession

NextQA ==
    \/ EstimateConfidence
    \/ AnswerQuestion
    \/ SearchDocument
    \/ SuggestQuestions

SpecQA == InitQA /\ [][NextQA]_vars

\* One call of a public operation of the processor: process_document,
\* answer_question or search_document.
InitPublic ==
    \/ InitPipeline
    \/ /\ InitAnswer \/ InitSearch
       /\ RunIdle
       /\ NoBatch
       /\ NoHighlight
       /\ NoSession

NextPublic ==
    \/ Enter
    \/ Validate
    \/ ExtractText
    \/ GenerateSummary
    \/ ExtractEntities
    \/ ExtractClauses
    \/ GenerateQASuggestions
    \/ GenerateBulletPoints
    \/ AnalyzeRisks
    \/ ExtractRelationships
    \/ Complete
    \/ AnswerQuestion
    \/ SearchDocument

SpecPublic == InitPublic /\ [][NextPublic]_vars

(***************************************************************************)
(* Properties of process_document (checked under SpecPipeline).            *)
(***************************************************************************)

\* C1: when the extraction stage yields empty text, process_document
\* returns at once a result with status failed and an error message; no
\* later stage is executed, none calls the generative model, and the result
\* holds none of the stage fields.
C1_EmptyTextFails ==
    (text_data # <<>> /\ text_data[1].text = <<>>) =>
        /\ pc = "exit"
        /\ returned
        /\ ~escaped
        /\ results["status"] = "failed"
        /\ results["error"] = NoTextError
        /\ DOMAIN results \cap
               {"summary", "entities", "clauses", "highlighted_text", "clause_summary",
                "suggested_questions", "qa_ready_text", "bullet_points", "risk_analysis",
                "relationships"} = {}
        /\ \A s \in Stages \ {"extract"} : calls[s] = 0
        /\ visited = <<"extract">>

\* A scan without text has been processed with the summary stage enabled.
C1_Witness ==
    /\ pc = "exit"
    /\ file_path = P_scan
    /\ text_data # <<>>
    /\ text_data[1].text = <<>>
    /\ analysis_options[1].generate_summary
    /\ analysis_options[1].analyze_risks

\* C2: when the extraction yields text, whatever the stage flags and
\* whichever of the stages' model calls fail, process_document executes
\* every enabled stage in order, stores the stage's empty or default payload
\* for each stage whose call failed, and returns status completed.
C2_StageFailuresNonFatal ==
    (pc = "exit" /\ text_data # <<>> /\ text_data[1].text # <<>>) =>
        LET o == analysis_options[1]
            order == IF proc = "enhanced"
                     THEN <<"extract", "summary", "entities", "clauses", "qa", "bullets",
                            "risks">>
                     ELSE <<"extract", "summary", "entities", "bullets", "risks",
                            "relationships">>
            flag == [extract |-> o.extract_text, summary |-> o.generate_summary,
                     entities |-> o.extract_entities, clauses |-> o.extract_clauses,
                     qa |-> o.generate_qa_suggestions, bullets |-> o.generate_bullet_points,
                     risks |-> o.analyze_risks, relationships |-> o.extract_relationships]
            Enabled(s) == flag[s]
        IN  /\ returned
            /\ ~escaped
            /\ results["status"] = "completed"
            /\ visited = SelectSeq(order, Enabled)
            /\ "summary" \in failed_calls =>
                   /\ results["summary"].summary = ErrorGeneratingSummary
                   /\ results["summary"].summary_length = 0
                   /\ results["summary"].key_points = <<>>
            /\ "entities" \in failed_calls =>
                   /\ results["entities"].entities = NoEntities
                   /\ results["entities"].total_entities = 0
            /\ "clauses" \in failed_calls =>
                   /\ results["clauses"].clauses = <<>>
                   /\ results["clauses"].total_clauses_found = 0
                   /\ "highlighted_text" \notin DOMAIN results
                   /\ "clause_summary" \notin DOMAIN results
            /\ "qa" \in failed_calls =>
                   results["suggested_questions"] = DefaultQuestions
            /\ "bullets" \in failed_calls => results["bullet_points"] = <<>>
            /\ "risks" \in failed_calls => results["risk_analysis"] = EmptyRiskAnalysis
            /\ "relationships" \in failed_calls =>
                   /\ results["relationships"].relationships = NoEntities
                   /\ results["relationships"].total_relationships = 0

\* The model call of every stage after the extraction has failed, and the
\* run has completed.
C2_Witness ==
    /\ pc = "exit"
    /\ proc = "enhanced"
    /\ failed_calls = {"summary", "entities", "clauses", "qa", "bullets", "risks"}
    /\ results["status"] = "completed"

\* C3: a returned result has status completed or failed; the status stored
\* during a run is processing and then at most one terminal value (or the
\* terminal value failed alone); no stage is executed twice and no stage
\* makes a second model call.
C3_StatusOnceNoRetries ==
    /\ status_log \in {<<>>, <<"processing">>, <<"processing", "completed">>,
                       <<"processing", "failed">>, <<"failed">>}
    /\ DOMAIN results # {} => results["status"] = status_log[Len(status_log)]
    /\ returned => results["status"] \in {"completed", "failed"}
    /\ \A s \in Stages : calls[s] <= 1
    /\ \A i, j \in 1..Len(visited) : visited[i] = visited[j] => i = j

\* A run with every stage of the enhanced processor has completed.
C3_Witness ==
    /\ returned
    /\ status_log = <<"processing", "completed">>
    /\ visited = <<"extract", "summary", "entities", "clauses", "qa", "bullets", "risks">>
    /\ calls["risks"] = 1

(***************************************************************************)
(* Properties of the public operations (checked under SpecPublic).         *)
(***************************************************************************)

\* C4: no exception leaves process_document, answer_question or
\* search_document; each returns a complete record, and for a failure of
\* the validation, of the extraction or of the model call the record
\* reports it: status failed with an error, the answer record with its
\* default payload, or the search record with no results and an error.
C4_NoExceptionEscapes ==
    /\ ~escaped
    /\ pc = "exit" =>
           /\ returned
           /\ {"file_path", "status", "analysis_options"} \subseteq DOMAIN results
           /\ results["status"] \in {"completed", "failed"}
           /\ results["status"] = "failed" => "error" \in DOMAIN results
           /\ ~_validate_file(file_path) => results["status"] = "failed"
    /\ (done /\ op = "answer_question") =>
           /\ ~reply[1].exc
           /\ DOMAIN reply[1].val = {"question", "answer", "confidence",
                                     "relevant_sections", "context_clauses_used"}
           /\ (args.generated.exc \/ args.question = <<>>) =>
                  /\ \/ StartsWith(reply[1].val.answer, SorryPrefix)
                     \/ StartsWith(reply[1].val.answer, ErrorPrefix)
                  /\ reply[1].val.relevant_sections = <<>>
                  /\ reply[1].val.context_clauses_used = 0
    /\ (done /\ op = "search_document") =>
           /\ ~reply[1].exc
           /\ {"query", "results", "total_results"} \subseteq DOMAIN reply[1].val
           /\ (args.generated.exc \/ args.document_text = <<>>) =>
                  /\ "error" \in DOMAIN reply[1].val
                  /\ reply[1].val.results = <<>>
                  /\ reply[1].val.total_results = 0

\* process_document has returned the record of its except block for a path
\* that does not exist.
C4_Witness ==
    /\ pc = "exit"
    /\ returned
    /\ file_path = P_missing
    /\ "error" \in DOMAIN results
    /\ results["error"] = InvalidFilePrefix \o P_missing

(***************************************************************************)
(* Properties of process_multiple_documents (checked under SpecBatch).     *)
(***************************************************************************)

\* C5: for a list of N paths of which exactly one fails the extraction and
\* all others succeed, process_multiple_documents processes every document
\* and returns N individual entries, one with status failed and N-1 with
\* status completed.
C5_OneFailureIsolated ==
    (/\ batch_pc = "done"
     /\ Cardinality({k \in 1..Len(file_paths) : file_paths[k] = P_scan}) = 1
     /\ \A k \in 1..Len(file_paths) : file_paths[k] \in {P_scan, P_contract}) =>
        LET entries == batch_results.individual_results
            WithStatus(s) == {path \in DOMAIN entries : entries[path]["status"] = s}
        IN  /\ Len(batch_log) = Len(file_paths)
            /\ Cardinality(DOMAIN entries) = Len(file_paths)
            /\ Cardinality(WithStatus("failed")) = 1
            /\ Cardinality(WithStatus("completed")) = Len(file_paths) - 1

(***************************************************************************)
(* Properties of the confidence values (checked under SpecQA).             *)
(***************************************************************************)

C_termination ==
    Clause(T_TERMINATION, <<"E","i","t","h","e","r"," ","p","a","r","t","y"," ","m","a","y"," ",
                            "e","n","d"," ","t","h","i","s",".">>,
           <<>>, S_LOW, S_Unknown)

C_liability ==
    Clause(T_LIMITATION_LIABILITY, <<"L","i","a","b","i","l","i","t","y"," ","i","s"," ","c",
                                     "a","p","p","e","d"," ","a","t"," ","f","e","e","s",".">>,
           <<>>, S_HIGH, S_Unknown)

Q_payment ==
    <<"I","s"," ","t","h","e"," ","p","a","y","m","e","n","t"," ","l","a","t","e","?">>

Q_end ==
    <<"C","a","n"," ","I"," ","E","N","D"," ","o","r"," ","t","e","r","m","i","n","a","t","e",
      " ","w","i","t","h","o","u","t"," ","l","i","a","b","i","l","i","t","y","?">>

Q_other ==
    <<"W","h","a","t"," ","i","s"," ","t","h","i","s"," ","a","b","o","u","t","?">>

MaxRouteClauses == 4

\* A call: a list of up to MaxRouteClauses clauses, and a question or None.
RouteCalls ==
    [clauses : UNION {[1..n -> {C_payment, C_termination, C_liability}] :
                         n \in 0..MaxRouteClauses},
     question : {<<>>, <<Q_payment>>, <<Q_end>>, <<Q_other>>}]

\* processor.get_clause_context_for_question(clauses, question)
Route ==
    /\ op = "get_clause_context_for_question"
    /\ ~done
    /\ reply' = <<Return(get_clause_context_for_question(args.clauses, args.question))>>
    /\ done' = TRUE
    /\ UNCHANGED <<op, args>>
    /\ UNCHANGED <<run_vars, batch_vars, highlight_vars, session_vars>>

InitRouter ==
    /\ op = "get_clause_context_for_question"
    /\ args \in RouteCalls
    /\ reply = <<>>
    /\ done = FALSE
    /\ RunIdle
    /\ NoBatch
    /\ NoHighlight
    /\ NoSession

NextRouter == Route

SpecRouter == InitRouter /\ [][NextRouter]_vars

\* C7: get_clause_context_for_question returns at most 3 clauses for every
\* question and clause list: when keywords of the question select clauses,
\* when the HIGH-importance clauses stand in for them, and when the call
\* fails.
C7_AtMostThreeClauses ==
    (done /\ op = "get_clause_context_for_question") =>
        /\ ~reply[1].exc
        /\ Len(reply[1].val) <= 3
        /\ \A k \in 1..Len(reply[1].val) :
              \E j \in 1..Len(args.clauses) : reply[1].val[k] = args.clauses[j]

\* The keywords of the question select four clauses and three are returned.
C7_Witness ==
    /\ done
    /\ op = "get_clause_context_for_question"
    /\ args.question = <<Q_payment>>
    /\ Len(args.clauses) = 4
    /\ \A k \in 1..Len(args.clauses) : args.clauses[k].clause_type = T_PAYMENT
    /\ Len(reply[1].val) = 3

(***************************************************************************)
(* Calls of highlight_clauses_in_text, one action per step of its body.    *)
(***************************************************************************)

H_confidential ==
    Clause(T_CONFIDENTIALITY,
           <<"C","o","n","f","i","d","e","n","t","i","a","l"," ","i","n","f","o"," ","m","u",
             "s","t"," ","n","o","t"," ","b","e"," ","s","h","a","r","e","d",".">>,
           <<"R","e","s","t","a","t","e","s",":"," ","P","a","y"," ","w","i","t","h","i","n",
             " ","3","0"," ","d","a","y","s"," ","o","f"," ","i","n","v","o","i","c","e",".">>,
           S_HIGH, S_Unknown)

H_fee_long ==
    Clause(T_PAYMENT,
           <<"f","e","e"," ","n","o","w"," ","a","n","d"," ","s","h","a","l","l"," ","p","a",
             "y"," ","t","h","e"," ","f","e","e"," ","n","o","w"," ","o","r"," ","l","a","t",
             "e","r",".">>,
           <<>>, S_MEDIUM, S_Unknown)

H_fee_short ==
    Clause(T_PAYMENT,
           <<" ","s","h","a","l","l"," ","p","a","y"," ","t","h","e"," ","f","e","e"," ","n",
             "o","w"," ">>,
           <<>>, S_MEDIUM, S_Unknown)

H_absent ==
    Clause(T_DELIVERY,
           <<"S","e","l","l","e","r"," ","d","e","l","i","v","e","r","s"," ","t","h","e"," ",
             "g","o","o","d","s",".">>,
           <<>>, S_LOW, S_Unknown)

MaxClauses == 2

\* A call: a document, and a list of up to MaxClauses clauses, which may
\* repeat a clause, overlap, or quote text the document does not hold.
HighlightCalls ==
    [text : {D1, D2, D3},
     clauses : UNION {[1..n -> {H_confidential, C_payment, H_fee_long, H_fee_short,
                                H_absent}] : n \in 0..MaxClauses}]

\* highlighted_text = text; sorted_clauses = sorted(clauses, ...)
HighlightSort ==
    /\ op = "highlight_clauses_in_text"
    /\ ~done
    /\ hl_i = 0
    /\ highlighted' = WorkingCopy(args.text)
    /\ sorted_clauses' = SortLongestFirst(args.clauses)
    /\ hl_i' = 1
    /\ UNCHANGED call_vars
    /\ UNCHANGED <<run_vars, batch_vars, session_vars>>

\* One iteration of for i, clause in enumerate(sorted_clauses).
HighlightClause ==
    /\ op = "highlight_clauses_in_text"
    /\ hl_i >= 1
    /\ hl_i <= Len(sorted_clauses)
    /\ highlighted' = HighlightStep(highlighted, sorted_clauses[hl_i], hl_i)
    /\ hl_i' = hl_i + 1
    /\ UNCHANGED sorted_clauses
    /\ UNCHANGED call_vars
    /\ UNCHANGED <<run_vars, batch_vars, session_vars>>

\* return highlighted_text
HighlightReturn ==
    /\ op = "highlight_clauses_in_text"
    /\ ~done
    /\ hl_i > Len(sorted_clauses)
    /\ reply' = <<Return(highlighted.text)>>
    /\ done' = TRUE
    /\ UNCHANGED <<op, args>>
    /\ UNCHANGED highlight_vars
    /\ UNCHANGED <<run_vars, batch_vars, session_vars>>

InitHighlight ==
    /\ op = "highlight_clauses_in_text"
    /\ args \in HighlightCalls
    /\ reply = <<>>
    /\ done = FALSE
    /\ NoHighlight
    /\ NoSession
    /\ RunIdle
    /\ NoBatch

NextHighlight ==
    \/ HighlightSort
    \/ HighlightClause
    \/ HighlightReturn

SpecHighlight == InitHighlight /\ [][NextHighlight]_vars

\* C8: every wrapper highlight_clauses_in_text inserts encloses characters
\* of the input document, consecutive in it, and never characters of the
\* markup inserted for an earlier clause.
C8_OnlyDocumentText ==
    [][(op = "highlight_clauses_in_text" /\ hl_i >= 1 /\ hl_i' = hl_i + 1) =>
          LET clause_text == Strip(sorted_clauses[hl_i].clause_text)
              at == MatchAt(highlighted, clause_text)
          IN  at # 0 =>
                  \A k \in 0..(Len(clause_text) - 1) :
                      /\ highlighted.origin[at + k] # 0
                      /\ highlighted.origin[at + k] = highlighted.origin[at] + k]_vars

\* C9: each clause makes highlight_clauses_in_text insert at most one
\* wrapper, which encloses the first occurrence of the clause text in the
\* document; later occurrences stay as they are.
C9_FirstOccurrenceOnly ==
    [][(op = "highlight_clauses_in_text" /\ hl_i >= 1 /\ hl_i' = hl_i + 1) =>
          LET clause == sorted_clauses[hl_i]
              clause_text == Strip(clause.clause_text)
              at == MatchAt(highlighted, clause_text)
              inserted == {k \in 1..Len(highlighted'.owner) : highlighted'.owner[k] = hl_i}
          IN  /\ Cardinality(inserted) \in {0, Len(SpanOpen(clause)) + Len(SpanClose)}
              /\ at # 0 => highlighted.origin[at] = Find(args.text, clause_text)]_vars

(***************************************************************************)
(* Calls of the response parsers.                                          *)
(***************************************************************************)

RL_keyword ==
    <<"P","A","Y","M","E","N","T",":"," ","t","e","r","m","s"," ","b","e","l","o","w">>

RL_body ==
    <<"T","h","e"," ","b","u","y","e","r"," ","p","a","y","s"," ","w","i","t","h","i","n"," ",
      "t","h","i","r","t","y"," ","d","a","y","s",".">>

RL_category ==
    <<"P","e","r","s","o","n","s",":">>

RL_bullet ==
    <<"-"," ","J","o","h","n"," ","S","m","i","t","h">>

RL_broken_array ==
    <<"[","n","o","t"," ","j","s","o","n","]">>

RL_broken_object ==
    <<"{","\"","D","A","T","E","S","\"",":"," ","[","\"","1"," ","M","a","y","\"">>

RL_number ==
    <<"5">>

RL_empty_array ==
    <<"[","]">>

ResponseLines ==
    {RL_keyword, RL_body, RL_category, RL_bullet, RL_broken_array, RL_broken_object,
     RL_number, RL_empty_array}

MaxLines == 2

\* "\n".join(lines)
JoinLines(lines) ==
    Concat([k \in 1..Len(lines) |-> IF k = 1 THEN lines[k] ELSE <<"\n">> \o lines[k]])

\* The responses of the model: up to MaxLines lines without a parsable
\* container of records, the empty response included.
ResponseTexts ==
    {JoinLines(lines) : lines \in UNION {[1..n -> ResponseLines] : n \in 0..MaxLines}}

\* Responses that hold a JSON container of records, and a line response
\* that names one entity twice.
RS_payment ==
    <<"[","{","\"","c","l","a","u","s","e","_","t","y","p","e","\"",":"," ","\"","P","A","Y",
      "M","E","N","T","\"",","," ","\"","c","l","a","u","s","e","_","t","e","x","t","\"",":",
      " ","\"","T","h","e"," ","b","u","y","e","r"," ","p","a","y","s"," ","w","i","t","h","i",
      "n"," ","t","h","i","r","t","y"," ","d","a","y","s",".","\"","}","]">>

RS_other ==
    <<"C","l","a","u","s","e","s",":"," ","[","{","\"","c","l","a","u","s","e","_","t","y","p",
      "e","\"",":"," ","\"","O","T","H","E","R","\"",","," ","\"","c","l","a","u","s","e","_",
      "t","e","x","t","\"",":"," ","\"","T","h","e"," ","s","e","l","l","e","r"," ","k","e","e",
      "p","s"," ","a","l","l"," ","o","t","h","e","r"," ","r","i","g","h","t","s",".","\"","}",
      "]">>

RS_short ==
    <<"[","{","\"","c","l","a","u","s","e","_","t","y","p","e","\"",":"," ","\"","P","A","Y",
      "M","E","N","T","\"",","," ","\"","c","l","a","u","s","e","_","t","e","x","t","\"",":",
      " ","\"","P","a","y"," ","n","o","w",".","\"","}",","," ","{","\"","c","l","a","u","s",
      "e","_","t","y","p","e","\"",":"," ","\"","D","E","L","I","V","E","R","Y","\"",","," ",
      "\"","c","l","a","u","s","e","_","t","e","x","t","\"",":"," ","\""," "," ","G","o","o",
      "d","s"," ","a","r","e"," ","d","e","l","i","v","e","r","e","d"," ","w","i","t","h","i",
      "n"," ","a"," ","w","e","e","k","."," "," ","\"","}","]">>

RS_persons ==
    <<"{","\"","P","E","R","S","O","N","S","\"",":"," ","[","\"","J","o","h","n"," ","S","m",
      "i","t","h","\"",","," ","\""," ","J","o","h","n"," ","S","m","i","t","h"," ","\"",",",
      " ","\"","J","\"",","," ","\"","\"","]",","," ","\"","D","A","T","E","S","\"",":"," ","[",
      "]","}">>

RS_parties ==
    <<"{","\"","P","A","R","T","I","E","S","\"",":"," ","[","\"","A","c","m","e"," ","C","o",
      "r","p","\"","]","}">>

RS_many ==
    <<"{","\"","D","A","T","E","S","\"",":"," ","[","\"","d","0","1","\"",","," ","\"","d","0",
      "2","\"",","," ","\"","d","0","3","\"",","," ","\"","d","0","4","\"",","," ","\"","d","0",
      "5","\"",","," ","\"","d","0","6","\"",","," ","\"","d","0","7","\"",","," ","\"","d","0",
      "8","\"",","," ","\"","d","0","9","\"",","," ","\"","d","1","0","\"",","," ","\"","d","1",
      "1","\"",","," ","\"","d","1","2","\"",","," ","\"","d","1","3","\"",","," ","\"","d","1",
      "4","\"",","," ","\"","d","1","5","\"",","," ","\"","d","1","6","\"",","," ","\"","d","1",
      "7","\"",","," ","\"","d","1","8","\"",","," ","\"","d","1","9","\"",","," ","\"","d","2",
      "0","\"",","," ","\"","d","2","1","\"","]","}">>

RS_repeated ==
    <<"P","E","R","S","O","N","S",":","\n","-"," ","J","o","h","n"," ","S","m","i","t","h","\n",
      "-"," ","J","o","h","n"," ","S","m","i","t","h">>

\* Arrays that mix valid records with elements the validation rejects, and
\* a line response with two body lines under one keyword line.
RS_mixed ==
    <<"[","5",","," ","{","\"","c","l","a","u","s","e","_","t","y","p","e","\"",":"," ","\"",
      "P","A","Y","M","E","N","T","\"","}",","," ","{","\"","c","l","a","u","s","e","_","t","y",
      "p","e","\"",":"," ","\"","P","A","Y","M","E","N","T","\"",","," ","\"","c","l","a","u",
      "s","e","_","t","e","x","t","\"",":"," ","\"","T","h","e"," ","b","u","y","e","r"," ","p",
      "a","y","s"," ","w","i","t","h","i","n"," ","t","h","i","r","t","y"," ","d","a","y","s",
      ".","\"","}",","," ","\"","x","\"",","," ","{","\"","c","l","a","u","s","e","_","t","y",
      "p","e","\"",":"," ","\"","P","A","Y","M","E","N","T","\"",","," ","\"","c","l","a","u",
      "s","e","_","t","e","x","t","\"",":"," ","\"","T","h","e"," ","b","u","y","e","r"," ","p",
      "a","y","s"," ","w","i","t","h","i","n"," ","t","h","i","r","t","y"," ","d","a","y","s",
      ".","\"","}","]">>

RS_nonstring ==
    <<"[","{","\"","c","l","a","u","s","e","_","t","y","p","e","\"",":"," ","\"","P","A","Y",
      "M","E","N","T","\"",","," ","\"","c","l","a","u","s","e","_","t","e","x","t","\"",":",
      " ","3","0","}",","," ","{","\"","c","l","a","u","s","e","_","t","y","p","e","\"",":"," ",
      "\"","P","A","Y","M","E","N","T","\"",","," ","\"","c","l","a","u","s","e","_","t","e",
      "x","t","\"",":"," ","\"","T","h","e"," ","b","u","y","e","r"," ","p","a","y","s"," ","w",
      "i","t","h","i","n"," ","t","h","i","r","t","y"," ","d","a","y","s",".","\"","}","]">>

RS_two_bodies ==
    <<"P","A","Y","M","E","N","T",":","\n","T","h","e"," ","b","u","y","e","r"," ","p","a","y",
      "s"," ","w","i","t","h","i","n"," ","t","h","i","r","t","y"," ","d","a","y","s",".","\n",
      "L","a","t","e"," ","p","a","y","m","e","n","t"," ","b","e","a","r","s"," ","i","n","t",
      "e","r","e","s","t"," ","a","t"," ","f","i","v","e"," ","p","e","r","c","e","n","t",".">>

StructuredTexts ==
    {RS_payment, RS_other, RS_short, RS_persons, RS_parties, RS_many, RS_repeated,
     RS_mixed, RS_nonstring, RS_two_bodies}

\* self._parse_clause_response(response_text)
ParseClauseResponse ==
    /\ op = "_parse_clause_response"
    /\ ~done
    /\ reply' = <<_parse_clause_response(args.response_text)>>
    /\ done' = TRUE
    /\ UNCHANGED <<op, args>>
    /\ UNCHANGED <<run_vars, batch_vars, highlight_vars, session_vars>>

\* self._parse_entity_response(response_text)
ParseEntityResponse ==
    /\ op = "_parse_entity_response"
    /\ ~done
    /\ \E r \in _parse_entity_response(args.response_text) : reply' = <<r>>
    /\ done' = TRUE
    /\ UNCHANGED <<op, args>>
    /\ UNCHANGED <<run_vars, batch_vars, highlight_vars, session_vars>>

\* self._parse_search_results(response_text, query)
ParseSearchResults ==
    /\ op = "_parse_search_results"
    /\ ~done
    /\ reply' = <<_parse_search_results(args.response_text, args.query)>>
    /\ done' = TRUE
    /\ UNCHANGED <<op, args>>
    /\ UNCHANGED <<run_vars, batch_vars, highlight_vars, session_vars>>

InitParser ==
    /\ op \in {"_parse_clause_response", "_parse_entity_response", "_parse_search_results"}
    /\ args \in [response_text : ResponseTexts \cup StructuredTexts, query : {SQ_pay}]
    /\ reply = <<>>
    /\ done = FALSE
    /\ RunIdle
    /\ NoBatch
    /\ NoHighlight
    /\ NoSession

NextParser ==
    \/ ParseClauseResponse
    \/ ParseEntityResponse
    \/ ParseSearchResults

SpecParser == InitParser /\ [][NextParser]_vars

\* C10 as stated: for every response without a parsable JSON container
\* (malformed or empty), _parse_clause_response, _parse_entity_response and
\* _parse_search_results return an empty collection and do not raise.
C10_MalformedGivesEmpty ==
    LET response_text == args.response_text
        loaded == JsonLoads(JsonObjectText(response_text, Find(response_text, <<"{">>),
                                           RFind(response_text, <<"}">>)))
        malformed ==
            CASE op = "_parse_clause_response" -> ClauseParseBody(response_text).exc
              [] op = "_parse_entity_response" -> loaded.exc \/ loaded.val.t # "obj"
              [] op = "_parse_search_results" -> ~Contains(response_text, ResultMarker)
    IN  (done /\ op \in {"_parse_clause_response", "_parse_entity_response",
                         "_parse_search_results"} /\ malformed) =>
            /\ ~reply[1].exc
            /\ DOMAIN reply[1].val = {}

\* C10 as amended: for every response without a parsable JSON container the
\* three parsers do not raise, and they return an empty collection unless a
\* line of the response holds a category name (in any case) and a colon,
\* from which the line-oriented fallback of _parse_clause_response and
\* _parse_entity_response builds records.
C10_MalformedNeverRaises ==
    LET response_text == args.response_text
        loaded == JsonLoads(JsonObjectText(response_text, Find(response_text, <<"{">>),
                                           RFind(response_text, <<"}">>)))
        malformed ==
            CASE op = "_parse_clause_response" -> ClauseParseBody(response_text).exc
              [] op = "_parse_entity_response" -> loaded.exc \/ loaded.val.t # "obj"
              [] op = "_parse_search_results" -> ~Contains(response_text, ResultMarker)
        names == CASE op = "_parse_clause_response" -> clause_types
                   [] op = "_parse_entity_response" -> entity_categories
                   [] op = "_parse_search_results" -> <<>>
        lines == SplitOn(response_text, "\n")
        keyword_line ==
            \E l \in 1..Len(lines) : \E k \in 1..Len(names) :
                Contains(Upper(lines[l]), Upper(names[k])) /\ Contains(lines[l], <<":">>)
    IN  (done /\ op \in {"_parse_clause_response", "_parse_entity_response",
                         "_parse_search_results"} /\ malformed) =>
            /\ ~reply[1].exc
            /\ keyword_line \/ DOMAIN reply[1].val = {}

\* The clause parser has met a bracket pair that is no JSON and a value that
\* is no list, and has returned the empty list.
C10_Witness ==
    /\ done
    /\ op = "_parse_clause_response"
    /\ args.response_text \in {RL_broken_array, RL_number}
    /\ reply[1] = Return(<<>>)

\* C11: every clause _parse_clause_response returns has a clause_text of
\* more than 20 characters, whether json.loads or the line fallback
\* produced it.
C11_ClauseTextLongerThan20 ==
    (done /\ op = "_parse_clause_response" /\ ~reply[1].exc) =>
        \A k \in 1..Len(reply[1].val) : Len(reply[1].val[k].clause_text) > 20

\* C12: for a response that holds a valid JSON array, every clause
\* _parse_clause_response returns has a clause_type among the 12 names of
\* clause_types.
C12_ClauseTypeInClosedSet ==
    (done /\ op = "_parse_clause_response" /\ ~reply[1].exc
          /\ ~ClauseParseBody(args.response_text).exc) =>
        \A k \in 1..Len(reply[1].val) :
            \E j \in 1..Len(clause_types) : reply[1].val[k].clause_type = clause_types[j]

\* C14: every entity map _parse_entity_response returns, from json.loads or
\* from the line fallback, has keys among entity_categories, and each
\* category holds trimmed entities longer than one character, no entity
\* twice, and at most 20 entities.
C14_EntityMapInvariant ==
    (done /\ op = "_parse_entity_response" /\ ~reply[1].exc) =>
        \A c \in DOMAIN reply[1].val :
            LET entities == reply[1].val[c]
            IN  /\ \E j \in 1..Len(entity_categories) : c = entity_categories[j]
                /\ \A e \in DOMAIN entities :
                      /\ Strip(e) = e
                      /\ Len(e) > 1
                      /\ entities[e] = 1
                /\ BagSize(entities) <= 20

\* C13: search_document returns at most 5 hits and a total_results equal
\* to their number; when it is given a document text, the hits are the
\* first qualifying '**Result' sections of the response, in the order the
\* model emitted them.
C13_AtMostFiveHitsInOrder ==
    (done /\ op = "search_document") =>
        /\ ~reply[1].exc
        /\ Len(reply[1].val.results) <= 5
        /\ reply[1].val.total_results = Len(reply[1].val.results)
        /\ \A e \in Emissions :
              (args.document_text # <<>> /\ args.generated = Return(SearchResponse(e))) =>
                  LET qualifying == SelectSeq([k \in 1..Len(e) |-> k], LAMBDA k : e[k] = "long")
                      first == Take(qualifying, 5)
                  IN  /\ Len(reply[1].val.results) = Len(first)
                      /\ \A k \in 1..Len(first) :
                            reply[1].val.results[k].text = EmittedText(first[k], "long")

\* The model emits six qualifying sections: the first five are returned and
\* the sixth is cut off.
C13_Witness ==
    /\ done
    /\ op = "search_document"
    /\ args.document_text # <<>>
    /\ args.generated = Return(SearchResponse([k \in 1..6 |-> "long"]))
    /\ Len(reply[1].val.results) = 5
    /\ reply[1].val.total_results = 5

C16_FallbackIffNoKeyword ==
    (done /\ op = "get_clause_context_for_question" /\ args.question # <<>>) =>
        LET present == {k \in 1..Len(keyword_mapping) :
                           Contains(Lower(args.question[1]), keyword_mapping[k].keyword)}
            high == SelectSeq(args.clauses, LAMBDA c : c.importance = S_HIGH)
        IN  /\ present = {} => reply[1].val = Take(high, 3)
            /\ present # {} =>
                  \A i \in 1..Len(reply[1].val) :
                      \E k \in present : reply[1].val[i].clause_type \in keyword_mapping[k].types

\* C17 as stated: when keywords of the question select clauses, the result
\* lists them in the relative order of the input clause list.
C17_DocumentOrder ==
    (done /\ op = "get_clause_context_for_question" /\ args.question # <<>>) =>
        LET present == {k \in 1..Len(keyword_mapping) :
                           Contains(Lower(args.question[1]), keyword_mapping[k].keyword)}
            selected == \E i \in 1..Len(args.clauses) : \E k \in present :
                            args.clauses[i].clause_type \in keyword_mapping[k].types
            result == reply[1].val
        IN  selected =>
                \E f \in [1..Len(result) -> 1..Len(args.clauses)] :
                    /\ \A i \in 1..Len(result) : result[i] = args.clauses[f[i]]
                    /\ \A i \in 1..(Len(result) - 1) : f[i] <= f[i + 1]

\* C17 as amended: when keywords of the question select clauses, the result
\* is the first 3 clauses of the list made by going through keyword_mapping
\* in its order and adding, for each keyword that occurs in the question,
\* the clauses it maps to in the order of the input clause list.
C17_KeywordThenDocumentOrder ==
    (done /\ op = "get_clause_context_for_question" /\ args.question # <<>>) =>
        LET collected ==
                Concat([k \in 1..Len(keyword_mapping) |->
                           IF Contains(Lower(args.question[1]), keyword_mapping[k].keyword)
                           THEN SelectSeq(args.clauses,
                                    LAMBDA c : c.clause_type \in keyword_mapping[k].types)
                           ELSE <<>>])
        IN  collected # <<>> => reply[1].val = Take(collected, 3)

\* The question holds "terminate", "end" and "liability": the termination
\* clause is returned twice, ahead of the liability clause that precedes it
\* in the input.
C17_Witness ==
    /\ done
    /\ op = "get_clause_context_for_question"
    /\ args.question = <<Q_end>>
    /\ args.clauses = <<C_liability, C_termination>>
    /\ reply[1].val = <<C_termination, C_termination, C_liability>>
\* C18: highlight_clauses_in_text leaves the text outside the wrappers
\* untouched.  At every point of the loop, and in the returned text, the
\* characters that no iteration inserted are, in order, exactly the input
\* document, and the characters one iteration inserted are, in order, the
\* opening tag with its metadata followed by the closing tag of that clause.
\* When no clause text occurs in the document the returned text is the
\* document.
C18_OutsideSpansUntouched ==
    (op = "highlight_clauses_in_text" /\ hl_i >= 1) =>
        LET h == highlighted
            kept == {p \in 1..Len(h.text) : h.owner[p] = 0}
            NoneOccurs ==
                \A k \in 1..Len(args.clauses) :
                    LET clause_text == Strip(args.clauses[k].clause_text)
                    IN  clause_text = <<>> \/ ~Contains(args.text, clause_text)
        IN  /\ Cardinality(kept) = Len(args.text)
            /\ \A p \in kept :
                   h.text[p] = args.text[Cardinality({q \in kept : q <= p})]
            /\ \A i \in 1..Len(sorted_clauses) :
                   LET mine == {p \in 1..Len(h.text) : h.owner[p] = i}
                       wrapper == SpanOpen(sorted_clauses[i]) \o SpanClose
                   IN  \/ mine = {}
                       \/ /\ Cardinality(mine) = Len(wrapper)
                          /\ \A p \in mine :
                                 h.text[p] = wrapper[Cardinality({q \in mine : q <= p})]
            /\ done => /\ reply = <<Return(h.text)>>
                       /\ NoneOccurs => reply = <<Return(args.text)>>

\* Both clauses of the list have been wrapped in the returned text.
C18_Witness ==
    /\ op = "highlight_clauses_in_text"
    /\ done
    /\ args.text = D3
    /\ args.clauses = <<C_payment, H_confidential>>
    /\ \A i \in 1..2 : \E p \in 1..Len(highlighted.owner) : highlighted.owner[p] = i
    /\ reply # <<Return(args.text)>>

\* C19: the spans highlight_clauses_in_text produces do not overlap.  Taking
\* each wrapper from the first character of its opening tag to the last
\* character of its closing tag, the wrappers of two iterations of the loop
\* never share a position: none lies in the body or in the metadata of
\* another.
C19_SpansDoNotOverlap ==
    (op = "highlight_clauses_in_text" /\ hl_i >= 1) =>
        LET h == highlighted
            Owned(i) == {p \in 1..Len(h.text) : h.owner[p] = i}
            Disjoint(a, b) ==
                \/ \A p \in a : \A q \in b : p < q
                \/ \A p \in a : \A q \in b : q < p
        IN  \A i, j \in 1..Len(sorted_clauses) :
                i < j => Disjoint(Owned(i), Owned(j))

\* C20: in a result of process_document the fields highlighted_text and
\* clause_summary are present exactly when the extract-clauses stage was
\* enabled, ran, and returned at least one clause; when the stage is
\* disabled, did not run, failed or found no clause, neither is present.
C20_ClauseFieldsIffClausesFound ==
    pc = "exit" =>
        LET found == /\ proc = "enhanced"
                     /\ analysis_options[1].extract_clauses
                     /\ \E k \in 1..Len(visited) : visited[k] = "clauses"
                     /\ "clauses" \notin failed_calls
                     /\ "clauses" \in DOMAIN results
                     /\ results["clauses"].clauses # <<>>
        IN  /\ "highlighted_text" \in DOMAIN results <=> found
            /\ "clause_summary" \in DOMAIN results <=> found
            /\ found =>
                   /\ results["highlighted_text"]
                          = highlight_clauses_in_text(document_text,
                                                      results["clauses"].clauses)
                   /\ results["clause_summary"]
                          = generate_clause_summary(results["clauses"].clauses)

\* A completed run whose clause stage found a clause.
C20_Witness ==
    /\ pc = "exit"
    /\ returned
    /\ results["status"] = "completed"
    /\ "clauses" \in DOMAIN results
    /\ results["clauses"].clauses # <<>>
    /\ "highlighted_text" \in DOMAIN results
    /\ "clause_summary" \in DOMAIN results

\* C21: within one run of process_document the stages of the class run one
\* after another in the fixed order extract-text, summarize,
\* extract-entities, extract-clauses (with the highlighted text and the
\* clause summary), suggested-questions, bullet-points, analyze-risks and,
\* in the basic class, extract-relationships.  A stage is entered only when
\* every enabled stage before it has run and recorded its field, the fields
\* of the stages not yet run are absent, and in a completed result the field
\* of a stage is present exactly when its flag was enabled.
C21_StagesInFixedOrder ==
    (pc # "enter" /\ pc # "validate" /\ "text_extraction" \in DOMAIN results) =>
        LET o == analysis_options[1]
            order == IF proc = "enhanced"
                     THEN <<"extract", "summary", "entities", "clauses", "qa", "bullets",
                            "risks">>
                     ELSE <<"extract", "summary", "entities", "bullets", "risks",
                            "relationships">>
            flag == [extract |-> o.extract_text, summary |-> o.generate_summary,
                     entities |-> o.extract_entities, clauses |-> o.extract_clauses,
                     qa |-> o.generate_qa_suggestions, bullets |-> o.generate_bullet_points,
                     risks |-> o.analyze_risks, relationships |-> o.extract_relationships]
            field == [extract |-> "text_extraction", summary |-> "summary",
                      entities |-> "entities", clauses |-> "clauses",
                      qa |-> "suggested_questions", bullets |-> "bullet_points",
                      risks |-> "risk_analysis", relationships |-> "relationships"]
            Pos(s) == CHOOSE k \in 1..Len(order) : order[k] = s
            ran == {visited[k] : k \in 1..Len(visited)}
        IN  /\ ran \subseteq {order[k] : k \in 1..Len(order)}
            /\ \A k \in 1..(Len(visited) - 1) : Pos(visited[k]) < Pos(visited[k + 1])
            /\ \A k \in 1..Len(order) : field[order[k]] \in DOMAIN results <=> order[k] \in ran
            /\ \A f \in {"highlighted_text", "clause_summary"} :
                   f \in DOMAIN results => "clauses" \in ran
            /\ "qa_ready_text" \in DOMAIN results <=> "qa" \in ran
            /\ \A k \in 1..Len(order) :
                   pc = order[k] =>
                       /\ order[k] \notin ran
                       /\ \A j \in 1..(k - 1) : flag[order[j]] <=> order[j] \in ran
                       /\ \A j \in k..Len(order) : order[j] \notin ran
            /\ (pc = "exit" /\ results["status"] = "completed") =>
                   \A k \in 1..Len(order) :
                       field[order[k]] \in DOMAIN results <=> flag[order[k]]

\* A completed run of the enhanced class with the summary and the bullet
\* points disabled: the five other stages ran, in order.
C21_Witness ==
    /\ pc = "exit"
    /\ proc = "enhanced"
    /\ "status" \in DOMAIN results
    /\ results["status"] = "completed"
    /\ visited = <<"extract", "entities", "clauses", "qa", "risks">>
    /\ "summary" \notin DOMAIN results
    /\ "bullet_points" \notin DOMAIN results
    /\ "risk_analysis" \in DOMAIN results

\* C22: on the strict path, for every JSON array the response holds,
\* _parse_clause_response returns exactly the elements that are objects
\* with clause_type and clause_text whose trimmed text is longer than 20
\* characters, in emission order and with duplicates kept; an element that
\* fails the checks (a non-object, a missing or non-string field, a short
\* text) is dropped and the other records are returned.
C22_StrictSubsequence ==
    (done /\ op = "_parse_clause_response") =>
        LET response_text == args.response_text
            loaded == JsonLoads(JsonArrayText(response_text, Find(response_text, <<"[">>),
                                              RFind(response_text, <<"]">>)))
            Passes(c) ==
                /\ c.t = "obj"
                /\ JHas(c, K_clause_type)
                /\ JHas(c, K_clause_text)
                /\ JGet(c, K_clause_text).t = "str"
                /\ Len(Strip(JGet(c, K_clause_text).s)) > 20
            Cleaned(c) ==
                Clause(FieldOr(c, K_clause_type, <<>>), Strip(JGet(c, K_clause_text).s),
                       FieldOr(c, K_context, <<>>), FieldOr(c, K_importance, S_MEDIUM),
                       FieldOr(c, K_section, S_Unknown))
        IN  (~loaded.exc /\ loaded.val.t = "arr") =>
                LET kept == SelectSeq(loaded.val.items, Passes)
                IN  reply = <<Return([k \in 1..Len(kept) |-> Cleaned(kept[k])])>>

\* C23: when strict parsing fails, the fallback opens one record at each
\* line that holds a category keyword and a separator, and the text of the
\* record is made of every following line up to the next keyword line or
\* the end of the input: the result has one record per keyword line, of the
\* category of that line, and each body line occurs in the text of its
\* record.
C23_FallbackBodyLines ==
    (done /\ op = "_parse_clause_response"
          /\ ClauseParseBody(args.response_text).exc
          /\ ClauseParseBody(args.response_text).kind = "JSONDecodeError") =>
        LET lines == SplitOn(args.response_text, "\n")
            Types(k) == {t \in 1..Len(clause_types) :
                            /\ Contains(Lower(Strip(lines[k])), Lower(clause_types[t]))
                            /\ Contains(Strip(lines[k]), <<":">>)}
            opening == {k \in 1..Len(lines) : Types(k) # {}}
            Rank(k) == Cardinality({j \in opening : j <= k})
            clauses == reply[1].val
        IN  /\ ~reply[1].exc
            /\ Len(clauses) = Cardinality(opening)
            /\ \A k \in opening :
                   /\ clauses[Rank(k)].clause_type = clause_types[SetMin(Types(k))]
                   /\ \A j \in (k + 1)..Len(lines) :
                          (/\ \A i \in (k + 1)..j : i \notin opening
                           /\ Strip(lines[j]) # <<>>) =>
                              Contains(clauses[Rank(k)].clause_text, Strip(lines[j]))

\* C24 as stated: when the model call of a stage other than the extraction
\* fails, the field of the stage holds the empty or default payload together
\* with an error note: an error entry in the payload or in the result, or,
\* for the summary, the text that says the summary could not be generated.
C24_FailedStageHasErrorNote ==
    \A stage \in failed_calls \ {"extract"} :
        LET field == [summary |-> "summary", entities |-> "entities",
                      clauses |-> "clauses", qa |-> "suggested_questions",
                      bullets |-> "bullet_points", risks |-> "risk_analysis",
                      relationships |-> "relationships"][stage]
        IN  /\ field \in DOMAIN results
            /\ \/ "error" \in DOMAIN results
               \/ /\ stage \in {"summary", "entities", "clauses", "risks", "relationships"}
                  /\ "error" \in DOMAIN results[field]
               \/ /\ stage = "summary"
                  /\ results[field].summary = ErrorGeneratingSummary

\* C24, amended: when the model call of a stage other than the extraction
\* fails, the field of the stage holds the empty or default payload of the
\* stage and nothing else is recorded: neither the payload nor the result
\* has an error entry.  Only the summary names the failure, in its text.
C24_FailedStageHasDefaultPayload ==
    (failed_calls \ {"extract"} # {}) =>
        /\ "error" \notin DOMAIN results
        /\ "summary" \in failed_calls =>
               results["summary"] =
                   [summary |-> ErrorGeneratingSummary,
                    summary_type |-> analysis_options[1].summary_type,
                    original_length |-> Len(document_text),
                    summary_length |-> 0,
                    compression_ratio |-> [num |-> 0, den |-> 1],
                    key_points |-> <<>>]
        /\ "entities" \in failed_calls =>
               results["entities"] =
                   [entities |-> NoEntities,
                    extraction_type |-> analysis_options[1].entity_extraction_type,
                    total_entities |-> 0, categories_found |-> {},
                    text_length |-> Len(document_text)]
        /\ "clauses" \in failed_calls =>
               results["clauses"] =
                   [clauses |-> <<>>, total_clauses_found |-> 0,
                    clause_types_searched |-> clause_types,
                    document_length |-> Len(document_text)]
        /\ "qa" \in failed_calls => results["suggested_questions"] = DefaultQuestions
        /\ "bullets" \in failed_calls => results["bullet_points"] = <<>>
        /\ "risks" \in failed_calls =>
               results["risk_analysis"] =
                   [high_risks |-> <<>>, medium_risks |-> <<>>,
                    recommendations |-> <<>>, compliance_notes |-> <<>>]

\* A completed run in which the model calls of the entity, the clause and
\* the risk stage failed.
C24_Witness ==
    /\ pc = "exit"
    /\ "status" \in DOMAIN results
    /\ results["status"] = "completed"
    /\ {"entities", "clauses", "risks"} \subseteq failed_calls
    /\ results["risk_analysis"].high_risks = <<>>
    /\ results["entities"].total_entities = 0

(***************************************************************************)
(* The Q&A session of the application (mvp_app.py): the document analysed, *)
(* the text kept for questions, and the history of the answers.            *)
(***************************************************************************)

\* Results process_document can return, with the fields the Q&A section
\* reads.
SR_full ==
    ("status" :> "completed")
    @@ ("clauses" :> [clauses |-> <<C_liability, C_payment>>])
    @@ ("suggested_questions" :> <<Q_payment, Q_share>>)
    @@ ("qa_ready_text" :> D1)

SR_plain ==
    ("status" :> "completed") @@ ("text_extraction" :> [text |-> D2])

SR_failed ==
    ("status" :> "failed") @@ ("error" :> NoTextError)

\* The outcomes of the model call made for an answer.
SessionGenerated ==
    {Raised(QuotaError), Return(A_Yes)}

\* The number of answers a session is followed for.
MaxHistory == 2

MaxSuggestedButtons == 6

\* The text process_document (of the application) stores for Q&A.
StoredText(result, old) ==
    IF "qa_ready_text" \in DOMAIN result THEN result["qa_ready_text"]
    ELSE IF "text_extraction" \in DOMAIN result
    THEN Take(result["text_extraction"].text, QAReadyLimit)
    ELSE old

\* The Q&A section is displayed for a completed result.
QAShown ==
    /\ analysis_results # <<>>
    /\ analysis_results[1]["status"] = "completed"

\* context_clauses of a question, for the result displayed.
SessionContext(result, question) ==
    IF "clauses" \in DOMAIN result /\ result["clauses"].clauses # <<>>
    THEN get_clause_context_for_question(result["clauses"].clauses, <<question>>)
    ELSE <<>>

\* The "Analyze Document" button.
AnalyzeDocument ==
    /\ \E result \in {SR_full, SR_plain, SR_failed} :
          /\ analysis_results' = <<result>>
          /\ session_document_text' = StoredText(result, session_document_text)
    /\ UNCHANGED qa_history
    /\ UNCHANGED <<run_vars, batch_vars, call_vars, highlight_vars>>

\* As GetAnswer, with the answer put in front of the history.
GetAnswer_Prepend ==
    /\ QAShown
    /\ Len(qa_history) < MaxHistory
    /\ session_document_text # <<>>
    /\ \E user_question \in {Q_pay, Q_payment} : \E generated \in SessionGenerated :
          LET context_clauses == SessionContext(analysis_results[1], user_question)
              answer_data == answer_question(session_document_text, <<user_question>>,
                                             context_clauses, generated).val
          IN  qa_history' = <<answer_data>> \o qa_history
    /\ UNCHANGED <<analysis_results, session_document_text>>
    /\ UNCHANGED <<run_vars, batch_vars, call_vars, highlight_vars>>

\* The "Get Answer" button with a question typed in.
GetAnswer ==
    /\ QAShown
    /\ Len(qa_history) < MaxHistory
    /\ session_document_text # <<>>
    /\ \E user_question \in {Q_pay, Q_payment} : \E generated \in SessionGenerated :
          LET context_clauses == SessionContext(analysis_results[1], user_question)
              answer_data == answer_question(session_document_text, <<user_question>>,
                                             context_clauses, generated).val
          IN  qa_history' = Append(qa_history, answer_data)
    /\ UNCHANGED <<analysis_results, session_document_text>>
    /\ UNCHANGED <<run_vars, batch_vars, call_vars, highlight_vars>>

\* The button of one of the first suggested questions.
SuggestedAnswer ==
    /\ QAShown
    /\ Len(qa_history) < MaxHistory
    /\ "suggested_questions" \in DOMAIN analysis_results[1]
    /\ \E i \in 1..Len(Take(analysis_results[1]["suggested_questions"],
                             MaxSuggestedButtons)) :
          \E generated \in SessionGenerated :
             LET question == analysis_results[1]["suggested_questions"][i]
                 context_clauses == SessionContext(analysis_results[1], question)
                 answer_data == answer_question(session_document_text, <<question>>,
                                                context_clauses, generated).val
             IN  qa_history' = Append(qa_history, answer_data)
    /\ UNCHANGED <<analysis_results, session_document_text>>
    /\ UNCHANGED <<run_vars, batch_vars, call_vars, highlight_vars>>

\* The "Clear Q&A History" button.
ClearHistory ==
    /\ qa_history' = <<>>
    /\ UNCHANGED <<analysis_results, session_document_text>>
    /\ UNCHANGED <<run_vars, batch_vars, call_vars, highlight_vars>>

InitSession ==
    /\ NoSession
    /\ RunIdle
    /\ NoBatch
    /\ NoCall
    /\ NoHighlight

NextSession ==
    \/ AnalyzeDocument
    \/ GetAnswer
    \/ SuggestedAnswer
    \/ ClearHistory

SpecSession == InitSession /\ [][NextSession]_vars

\* C25 as stated: the Q&A history is append-only.  Every action of the
\* caller leaves the history as it is or appends exactly one record at its
\* end; none removes, reorders or alters a record already in it.
C25_HistoryAppendOnly ==
    [][/\ Len(qa_history') \in {Len(qa_history), Len(qa_history) + 1}
       /\ SubSeq(qa_history', 1, Len(qa_history)) = qa_history]_vars

\* C25, amended: every action of the caller leaves the history as it is,
\* appends exactly one record at its end, or, for the Clear Q&A History
\* button, empties it; the records that stay are never reordered or altered.
C25_HistoryAppendOrClear ==
    [][\/ qa_history' = <<>>
       \/ /\ Len(qa_history') \in {Len(qa_history), Len(qa_history) + 1}
          /\ SubSeq(qa_history', 1, Len(qa_history)) = qa_history]_vars

\* Two questions have been answered, the first by a failed model call.
C25_Witness ==
    /\ Len(qa_history) = 2
    /\ qa_history[1].question = <<Q_pay>>
    /\ qa_history[1].confidence = Flt(0, 0)
    /\ qa_history[2].question = <<Q_payment>>
    /\ qa_history[2].context_clauses_used >= 1

\* C26 as stated: the result of get_clause_context_for_question never
\* holds the same clause record twice: for a list of distinct clauses the
\* clauses of the result are pairwise distinct, whatever the question.
C26_NoClauseTwice ==
    (done /\ op = "get_clause_context_for_question"
          /\ \A i, j \in 1..Len(args.clauses) :
                 i # j => args.clauses[i] # args.clauses[j]) =>
        \A i, j \in 1..Len(reply[1].val) : i # j => reply[1].val[i] # reply[1].val[j]

\* C26, amended: the result of get_clause_context_for_question holds a
\* clause once for each keyword of the question that maps the category of
\* the clause, and no more often: a clause occurs in the result at most as
\* many times as it occurs in the list, multiplied by the number of such
\* keywords (by one on the fallback path).
C26_OncePerKeyword ==
    (done /\ op = "get_clause_context_for_question" /\ args.question # <<>>) =>
        LET result == reply[1].val
            Count(seq, c) == Cardinality({k \in 1..Len(seq) : seq[k] = c})
            Keywords(c) == {k \in 1..Len(keyword_mapping) :
                               /\ Contains(Lower(args.question[1]), keyword_mapping[k].keyword)
                               /\ c.clause_type \in keyword_mapping[k].types}
        IN  \A i \in 1..Len(result) :
                LET c == result[i]
                IN  Count(result, c)
                        <= Count(args.clauses, c) * Max(1, Cardinality(Keywords(c)))

\* The question holds 'terminate' and 'end': the termination clause is
\* returned twice.
C26_Witness ==
    /\ done
    /\ op = "get_clause_context_for_question"
    /\ args.question = <<Q_end>>
    /\ args.clauses = <<C_termination, C_payment>>
    /\ reply = <<Return(<<C_termination, C_termination>>)>>

\* C27: after process_multiple_documents, for any list of paths,
\* processed_successfully + failed = total_documents = the length of the
\* list, and processed_successfully is the number of documents of the list
\* whose process_document result has status completed (failed the number of
\* the others); between two documents the two counters add up to the number
\* of documents processed so far.  When no path is repeated this is also the
\* number of completed entries of individual_results.
C27_BatchCountsAddUp ==
    /\ batch_pc = "loop" =>
           /\ batch_results.processed_successfully + batch_results.failed = batch_i - 1
           /\ batch_results.total_documents = Len(file_paths)
    /\ batch_pc = "done" =>
           LET Completed == {k \in 1..Len(batch_log) : batch_log[k]["status"] = "completed"}
               entries == batch_results.individual_results
               Distinct == \A i, j \in 1..Len(file_paths) :
                               i # j => file_paths[i] # file_paths[j]
           IN  /\ batch_results.total_documents = Len(file_paths)
               /\ Len(batch_log) = Len(file_paths)
               /\ \A k \in 1..Len(batch_log) : batch_log[k]["file_path"] = file_paths[k]
               /\ batch_results.processed_successfully + batch_results.failed
                      = batch_results.total_documents
               /\ batch_results.processed_successfully = Cardinality(Completed)
               /\ batch_results.failed = Len(file_paths) - Cardinality(Completed)
               /\ Distinct =>
                      batch_results.processed_successfully =
                          Cardinality({path \in DOMAIN entries :
                                          entries[path]["status"] = "completed"})

\* A batch of a readable contract, a scan without text and a missing file
\* has returned: one document completed and two failed.
C27_Witness ==
    /\ batch_pc = "done"
    /\ file_paths = <<P_contract, P_scan, P_missing>>
    /\ batch_results.processed_successfully = 1
    /\ batch_results.failed = 2
    /\ batch_results.total_documents = 3

\* C28: in every record a successful answer_question returns,
\* context_clauses_used is the number of context clauses put into the
\* prompt of the model, hence at most 3, for every list of context clauses,
\* lists of more than 3 clauses included.
C28_ContextClausesUsed ==
    (done /\ op = "answer_question" /\ args.question # <<>> /\ ~args.generated.exc) =>
        LET prompt == QAPrompt(args.document_text, args.question[1], args.context_clauses)
        IN  /\ reply[1].val.context_clauses_used = Len(prompt.context_info)
            /\ reply[1].val.context_clauses_used <= MaxContextClauses

\* C29: get_suggested_questions always returns between 6 and 10
\* questions, whatever text the model returns and when the model call
\* fails.  When fewer than 6 questions are parsed from the response the list
\* is filled to exactly 8: the parsed questions come first, and the
\* questions added are predefined category questions, each added once and
\* none that is already in the list.
C29_SixToTenQuestions ==
    (done /\ op = "get_suggested_questions") =>
        LET result == reply[1].val
            lines == StrippedLines(args.generated.val)
            parsed == Concat([k \in 1..Len(lines) |-> QuestionOfLine(lines[k])])
            predefined == {question_categories[c][q] :
                              c \in 1..Len(question_categories), q \in 1..PerCategory}
        IN  /\ ~reply[1].exc
            /\ Len(result) >= 6
            /\ Len(result) <= 10
            /\ (~args.generated.exc /\ Len(parsed) < 6) =>
                   /\ Len(result) = 8
                   /\ SubSeq(result, 1, Len(parsed)) = parsed
                   /\ \A k \in (Len(parsed) + 1)..8 :
                          /\ result[k] \in predefined
                          /\ \A j \in 1..(k - 1) : result[j] # result[k]

\* Three questions were parsed, two of them predefined category questions:
\* five other category questions fill the list to eight.
C29_Witness ==
    /\ done
    /\ op = "get_suggested_questions"
    /\ args.generated = Return(SuggestedResponse(4, 2, TRUE))
    /\ Len(reply[1].val) = 8
    /\ reply[1].val[1] = question_categories[1][1]
    /\ reply[1].val[4] = question_categories[1][2]


\* C30: when the options of a run of process_document disable the text
\* extraction (extract_text is false), the run never reaches the status
\* completed: no stage runs and no call is made, and the call returns a
\* result with status failed and an error, holding none of the fields the
\* stages record.
C30_DisabledExtractionFails ==
    (analysis_options # <<>> /\ ~analysis_options[1].extract_text) =>
        /\ visited = <<>>
        /\ \A s \in DOMAIN calls : calls[s] = 0
        /\ text_data = <<>>
        /\ \A k \in 1..Len(status_log) : status_log[k] # "completed"
        /\ ("status" \in DOMAIN results) => results["status"] # "completed"
        /\ pc = "exit" =>
               /\ returned
               /\ ~escaped
               /\ results["status"] = "failed"
               /\ "error" \in DOMAIN results
               /\ DOMAIN results \cap
                      {"text_extraction", "summary", "entities", "clauses",
                       "highlighted_text", "clause_summary", "suggested_questions",
                       "qa_ready_text", "bullet_points", "risk_analysis",
                       "relationships"} = {}

\* A run on a valid file with the extraction disabled and every other stage
\* enabled: it passed the validation and returned the failure of the
\* unassigned text_data.
C30_Witness ==
    /\ pc = "exit"
    /\ analysis_options # <<>>
    /\ ~analysis_options[1].extract_text
    /\ analysis_options[1].generate_summary
    /\ analysis_options[1].analyze_risks
    /\ returned
    /\ results["status"] = "failed"
    /\ results["error"] \in UnboundMessages
    /\ visited = <<>>
=============================================================================
